---- MODULE Spec2Model ----
(***************************************************************************)
(* gh-pr-review: the fingerprint / pull-request decision pass              *)
(* (pkg/approve ManualApproval) and its commit stage (processApprovals),   *)
(* run on the indices built by pkg/gh GetPrReviewRequested.                *)
(*                                                                         *)
(* Fingerprints are SHA-256 hex strings of equal length; they are modelled *)
(* as the integers 1..NumHashes, whose numeric order stands for the        *)
(* lexicographic order sort.Strings gives.  A pull request is identified   *)
(* by its HTML URL, modelled as an integer 1..NumPRs; a *github.PullRequest*)
(* object in an index list is modelled by that identity.                   *)
(***************************************************************************)
EXTENDS Integers, Sequences, FiniteSets, TLC

\* ---------------------------------------------------------------- bounds
NumPRs    == 2     \* pull requests awaiting review in one run
NumHashes == 3     \* distinct fingerprints that occur in the diffs
MaxHunks  == 2     \* distinct fingerprints in one pull request's diff
NumNotifs == 2     \* notifications the listing returns to the collector
MaxDiffLines == 6  \* lines of a diff handed to the fingerprint extractor
MaxBodyLines == 4  \* lines of a pull request body handed to the cleaner
NumBurst  == 11    \* notifications of a listing longer than the errgroup limit

PRs    == 1..NumPRs
Hashes == 1..NumHashes

VARIABLES
  userHashPrMap,  \* user -> hash -> list of PRs          (GhPrHashMap)
  changeMap,      \* hash -> list of change lines         (HashChangeMap)
  hashPrMap,      \* hash -> list of PRs                  (HashPrMap)
  prMap,          \* PR key -> list of hashes             (PrHashMap)
  pc,             \* position of ManualApproval
  user,           \* ManualApproval argument: the comma-split user string
  propagate,      \* ManualApproval argument
  dryRun,         \* ManualApproval argument
  hashes,         \* sorted walk list
  idx,            \* 0-based loop index of the walk
  approved,       \* keys of map approved
  declined,       \* keys of map declined
  prSkipped,      \* keys of map prSkipped
  firstSeen,      \* change line -> hash that first displayed it
  pending,        \* PR keys processApprovals has not iterated over yet
  approveCalls,   \* PR key -> number of approve actions / dry-run reports
  report,         \* PR key -> what processApprovals printed for it
  visited,        \* history: hashes in the order the walk reached them
  answers,        \* history: hash -> number of approve/decline answers read
  last,           \* history: what the most recent step did
  eof,            \* os.Stdin has reached end of input
  notifs,         \* collector: the notifications the listing returned
  cpc,            \* collector: position of GetPrReviewRequested
  tpc,            \* collector: notification -> position of its goroutine
  tout,           \* collector: notification -> how its goroutine ended
  mutex,          \* collector: holder of sync.Mutex m, 0 when free
  egErr,          \* collector: the errgroup has recorded an error
  ret,            \* collector: what GetPrReviewRequested returned
  exPc,           \* extractor: position of a getPrHash call
  exDiff,         \* extractor: the diff text, split into lines
  exHashes,       \* extractor: the returned fingerprint list
  exHunkMap,      \* extractor: the returned fingerprint -> change lines
  utPc,           \* cleaner: position of a removeDependabotTrailingCommand call
  body,           \* cleaner: the lines of the body that is cleaned
  cleaned,        \* cleaner: the returned text
  apPc,           \* approver: position of an ApprovePr call
  apIn,           \* approver: the pull request and what GitHub answers
  apLog,          \* approver: the requests sent to GitHub, in order
  apRet,          \* approver: what ApprovePr returned
  hashIndex,      \* GUI: model.hashIndex, the selected item of hashes
  focusRow,       \* GUI: model.focusRow, 0 top row, 1 bottom row
  guiPc           \* GUI: position of the Bubble Tea program

vars == <<userHashPrMap, changeMap, hashPrMap, prMap, pc, user, propagate,
          dryRun, hashes, idx, approved, declined, prSkipped, firstSeen,
          pending, approveCalls, report, visited, answers, last, eof,
          notifs, cpc, tpc, tout, mutex, egErr, ret,
          exPc, exDiff, exHashes, exHunkMap, utPc, body, cleaned,
          apPc, apIn, apLog, apRet,
          hashIndex, focusRow, guiPc>>

indexVars == <<userHashPrMap, changeMap, hashPrMap, prMap>>
argVars   == <<user, propagate, dryRun>>
colVars   == <<notifs, cpc, tpc, tout, mutex, egErr, ret>>
exVars    == <<exPc, exDiff, exHashes, exHunkMap>>
utilVars  == <<utPc, body, cleaned>>
apVars    == <<apPc, apIn, apLog, apRet>>
guiVars   == <<hashIndex, focusRow, guiPc>>
SessionVars == <<argVars, hashes, idx, approved, declined, prSkipped,
                 firstSeen, pending, approveCalls, report, visited, answers,
                 last, eof>>

\* ------------------------------------------------------- generic helpers
EmptyMap == [k \in {} |-> <<>>]

Put(m, k, v) == [x \in (DOMAIN m) \cup {k} |-> IF x = k THEN v ELSE m[x]]

Range(s) == {s[i] : i \in 1..Len(s)}

Min(S) == CHOOSE x \in S : \A y \in S : x <= y

RECURSIVE SortSet(_)
\* sort.Strings over the keys of a set-like map: ascending order
SortSet(S) ==
  IF S = {} THEN <<>>
  ELSE <<Min(S)>> \o SortSet(S \ {Min(S)})

\* a Go slice read through a map: the nil slice when the key is absent
Lookup(m, k) == IF k \in DOMAIN m THEN m[k] ELSE <<>>

\* append x unless the list already holds it (the present/found/have loops)
AppendIfAbsent(s, x) == IF x \in Range(s) THEN s ELSE Append(s, x)

\* ------------------------------------------------- the collector's output
\* The change lines behind each fingerprint.  The digest is a fixed
\* injective function of the joined change lines, so which contents sort
\* first is a property of the diffs of the run: three sets of diffs are
\* covered.
Catalogs ==
  << << <<"a", "b">>, <<"c">>, <<"b", "a">>, <<"a", "c">>, <<"c", "b">> >>,
     << <<"a">>, <<"b">>, <<"a", "b">>, <<"b", "a">>, <<"c">> >>,
     << <<"a", "b">>, <<"b">>, <<"c">>, <<"a">>, <<"c", "a">> >> >>

\* pr.GetUser().GetLogin() of pull request p
Logins == <<"u1", "u2">>
prUser(p) == Logins[((p - 1) % 2) + 1]

\* getPrHash: the fingerprints of a diff, in diff order, and its hunkMap
hunkMapOf(cat, prHash) == [h \in Range(prHash) |-> Catalogs[cat][h]]

RECURSIVE mergeHashesOverwritingPr(_, _, _, _)
\* variant: the list of a pull request is assigned, not appended to
mergeHashesOverwritingPr(ix, pr, u, prHash) ==
  IF prHash = <<>> THEN ix
  ELSE LET h  == Head(prHash)
           um == ix.user[u]
           ix2 == [ix EXCEPT
                     !.user = Put(ix.user, u,
                                  Put(um, h, AppendIfAbsent(Lookup(um, h), pr))),
                     !.hash = Put(ix.hash, h,
                                  AppendIfAbsent(Lookup(ix.hash, h), pr)),
                     !.pr   = Put(ix.pr, pr,
                                  <<h>>)]
       IN mergeHashesOverwritingPr(ix2, pr, u, Tail(prHash))

RECURSIVE mergeHashesAppending(_, _, _, _)
\* variant: the three lists are appended to without the look-up for duplicates
mergeHashesAppending(ix, pr, u, prHash) ==
  IF prHash = <<>> THEN ix
  ELSE LET h  == Head(prHash)
           um == ix.user[u]
           ix2 == [ix EXCEPT
                     !.user = Put(ix.user, u,
                                  Put(um, h, Append(Lookup(um, h), pr))),
                     !.hash = Put(ix.hash, h,
                                  Append(Lookup(ix.hash, h), pr)),
                     !.pr   = Put(ix.pr, pr,
                                  Append(Lookup(ix.pr, pr), h))]
       IN mergeHashesAppending(ix2, pr, u, Tail(prHash))

RECURSIVE mergeHashesLastWriter(_, _, _, _)
\* variant: the list of a fingerprint is assigned, not appended to
mergeHashesLastWriter(ix, pr, u, prHash) ==
  IF prHash = <<>> THEN ix
  ELSE LET h  == Head(prHash)
           um == ix.user[u]
           ix2 == [ix EXCEPT
                     !.user = Put(ix.user, u,
                                  Put(um, h, AppendIfAbsent(Lookup(um, h), pr))),
                     !.hash = Put(ix.hash, h,
                                  <<pr>>),
                     !.pr   = Put(ix.pr, pr,
                                  AppendIfAbsent(Lookup(ix.pr, pr), h))]
       IN mergeHashesLastWriter(ix2, pr, u, Tail(prHash))

RECURSIVE mergeHashes(_, _, _, _)
\* the loop "for _, h := range prHash" of the locked merge section
mergeHashes(ix, pr, u, prHash) ==
  IF prHash = <<>> THEN ix
  ELSE LET h  == Head(prHash)
           um == ix.user[u]
           ix2 == [ix EXCEPT
                     !.user = Put(ix.user, u,
                                  Put(um, h, AppendIfAbsent(Lookup(um, h), pr))),
                     !.hash = Put(ix.hash, h,
                                  AppendIfAbsent(Lookup(ix.hash, h), pr)),
                     !.pr   = Put(ix.pr, pr,
                                  AppendIfAbsent(Lookup(ix.pr, pr), h))]
       IN mergeHashes(ix2, pr, u, Tail(prHash))

\* the account whose notifications Activity.ListNotifications returns: the
\* one whose review the review_requested notifications ask for
Viewer == "me"

\* variant: every pull request is indexed under the account that reviews
mergePrUnderViewer(ix, pr, prHash, hunkMap) ==
  LET u   == Viewer
      ix1 == IF u \in DOMAIN ix.user THEN ix
             ELSE [ix EXCEPT !.user = Put(ix.user, u, EmptyMap)]
      ix2 == mergeHashes(ix1, pr, u, prHash)
  IN [ix2 EXCEPT !.change =
        [k \in (DOMAIN ix2.change) \cup (DOMAIN hunkMap) |->
           IF k \in DOMAIN ix2.change THEN ix2.change[k] ELSE hunkMap[k]]]

\* the locked merge section of one resolved notification
mergePr(ix, pr, prHash, hunkMap) ==
  LET u   == prUser(pr)
      ix1 == IF u \in DOMAIN ix.user THEN ix
             ELSE [ix EXCEPT !.user = Put(ix.user, u, EmptyMap)]
      ix2 == mergeHashes(ix1, pr, u, prHash)
  IN [ix2 EXCEPT !.change =
        [k \in (DOMAIN ix2.change) \cup (DOMAIN hunkMap) |->
           IF k \in DOMAIN ix2.change THEN ix2.change[k] ELSE hunkMap[k]]]

EmptyIndices == [user |-> EmptyMap, change |-> EmptyMap,
                 hash |-> EmptyMap, pr |-> EmptyMap]

RECURSIVE GetPrReviewRequested(_, _, _)
\* the indices after the notifications of pull requests n..NumPRs were
\* merged, one after the other; diffs[p] is the set of fingerprints of p's
\* diff (empty: no hunk with a change line)
GetPrReviewRequested(cat, diffs, n) ==
  IF n = 0 THEN EmptyIndices
  ELSE LET prHash == SortSet(diffs[n])
       IN mergePr(GetPrReviewRequested(cat, diffs, n - 1), n, prHash,
                  hunkMapOf(cat, prHash))

\* ------------------------------------------------------- ManualApproval
\* strings.EqualFold on the names that occur
Fold(s) == CASE s = "U1" -> "u1" [] s = "U2" -> "u2" [] OTHER -> s
EqualFold(a, b) == Fold(a) = Fold(b)

\* the values of the --user flag tried, split at ","
UserInputs == {<<"u1">>, <<"U2">>, <<"u1", "u2">>, <<"zz">>}

\* the keys of hashesMap in collectHashesForUsers
hashesMapOf(usr, uhp) ==
  UNION { IF usr[i] \in DOMAIN uhp THEN DOMAIN uhp[usr[i]]
          ELSE LET match == {uname \in DOMAIN uhp : EqualFold(uname, usr[i])}
               IN IF match = {} THEN {}
                  ELSE DOMAIN uhp[CHOOSE uname \in match : TRUE]
          : i \in 1..Len(usr) }

RECURSIVE SortSetDescending(_)
SortSetDescending(S) ==
  IF S = {} THEN <<>>
  ELSE LET m == CHOOSE x \in S : \A y \in S : x >= y
       IN <<m>> \o SortSetDescending(S \ {m})

\* variant: the hash list is left in an order other than ascending
collectHashesDescending(usr, uhp) == SortSetDescending(hashesMapOf(usr, uhp))

collectHashesForUsers(usr, uhp) == SortSet(hashesMapOf(usr, uhp))

RECURSIVE dupScanIgnoringApproval(_, _, _, _, _)
\* variant: the originator of a line is not required to be approved
dupScanIgnoringApproval(h, changes, fs, appr, originalsSet) ==
  IF changes = <<>> THEN <<TRUE, originalsSet>>
  ELSE LET line == Head(changes)
       IN IF line \in DOMAIN fs
          THEN IF fs[line] = h THEN <<FALSE, originalsSet>>
               ELSE dupScanIgnoringApproval(h, Tail(changes), fs, appr,
                                            originalsSet \cup {fs[line]})
          ELSE <<FALSE, originalsSet>>

\* isAllDuplicateApproved: <<allDup, originals>>
RECURSIVE dupScan(_, _, _, _, _)
\* the loop over the change lines; stops at the first line that is unseen,
\* first seen under h itself, or first seen under an unapproved hash
dupScan(h, changes, fs, appr, originalsSet) ==
  IF changes = <<>> THEN <<TRUE, originalsSet>>
  ELSE LET line == Head(changes)
       IN IF line \in DOMAIN fs
          THEN IF fs[line] = h THEN <<FALSE, originalsSet>>
               ELSE IF fs[line] \notin appr THEN <<FALSE, originalsSet>>
               ELSE dupScan(h, Tail(changes), fs, appr,
                            originalsSet \cup {fs[line]})
          ELSE <<FALSE, originalsSet>>

isAllDuplicateApproved(h, cm, fs, appr) ==
  IF h \notin DOMAIN cm THEN <<FALSE, <<>>>>
  ELSE LET r == dupScan(h, cm[h], fs, appr, {})
       IN IF ~r[1] \/ r[2] = {} THEN <<FALSE, <<>>>>
          ELSE <<TRUE, SortSet(r[2])>>

RECURSIVE markFirstSeenLastWriter(_, _, _)
\* variant: a displayed line is recorded under h also when it was seen
markFirstSeenLastWriter(h, changes, fs) ==
  IF changes = <<>> THEN fs
  ELSE markFirstSeenLastWriter(h, Tail(changes), Put(fs, Head(changes), h))

RECURSIVE printChangesAndMarkFirstSeen(_, _, _)
\* firstSeen after the change lines of h were displayed
printChangesAndMarkFirstSeen(h, changes, fs) ==
  IF changes = <<>> THEN fs
  ELSE LET line == Head(changes)
       IN printChangesAndMarkFirstSeen(h, Tail(changes),
            IF line \in DOMAIN fs THEN fs ELSE Put(fs, line, h))

RECURSIVE approveLinkedOverDeclined(_, _, _, _)
\* variant: a linked hash is approved even when it is declined
approveLinkedOverDeclined(h, linked, appr, decl) ==
  IF linked = <<>> THEN appr
  ELSE LET linkedHash == Head(linked)
       IN approveLinkedOverDeclined(h, Tail(linked),
            IF linkedHash # h /\ linkedHash \notin appr
            THEN appr \cup {linkedHash} ELSE appr,
            decl)

RECURSIVE approveLinked(_, _, _, _)
\* inner loop of autoApproveLinkedHashes over the hashes of one PR
approveLinked(h, linked, appr, decl) ==
  IF linked = <<>> THEN appr
  ELSE LET linkedHash == Head(linked)
       IN approveLinked(h, Tail(linked),
            IF linkedHash # h /\ linkedHash \notin appr /\ linkedHash \notin decl
            THEN appr \cup {linkedHash} ELSE appr,
            decl)

RECURSIVE approvePrs(_, _, _, _, _)
\* outer loop of autoApproveLinkedHashes over the PRs of h
approvePrs(h, prs, appr, decl, pm) ==
  IF prs = <<>> THEN appr
  ELSE LET prKey == Head(prs)
       IN approvePrs(h, Tail(prs),
            IF prKey \in DOMAIN pm
            THEN approveLinked(h, pm[prKey], appr, decl) ELSE appr,
            decl, pm)

\* autoApproveLinkedHashes: the approved map afterwards
autoApproveLinkedHashes(h, appr, decl, hpm, pm) ==
  IF h \in DOMAIN hpm THEN approvePrs(h, hpm[h], appr, decl, pm) ELSE appr

\* variant: the loop over the linked hashes stops after its first element
declineLinkedFirstOnly(h, linked, decl) ==
  IF linked = <<>> THEN decl
  ELSE IF Head(linked) # h /\ Head(linked) \notin decl
       THEN decl \cup {Head(linked)} ELSE decl

RECURSIVE declineLinked(_, _, _)
\* inner loop of autoDeclineLinkedHashes over the hashes of one PR
declineLinked(h, linked, decl) ==
  IF linked = <<>> THEN decl
  ELSE LET linkedHash == Head(linked)
       IN declineLinked(h, Tail(linked),
            IF linkedHash # h /\ linkedHash \notin decl
            THEN decl \cup {linkedHash} ELSE decl)

RECURSIVE declinePrs(_, _, _, _, _)
\* outer loop of autoDeclineLinkedHashes: <<declined, prSkipped>>
declinePrs(h, prs, decl, skipped, pm) ==
  IF prs = <<>> THEN <<decl, skipped>>
  ELSE LET prKey == Head(prs)
       IN declinePrs(h, Tail(prs),
            IF prKey \in DOMAIN pm
            THEN declineLinked(h, pm[prKey], decl) ELSE decl,
            skipped \cup {prKey}, pm)

\* autoDeclineLinkedHashes: <<declined, prSkipped>> afterwards
autoDeclineLinkedHashes(h, decl, skipped, hpm, pm) ==
  IF h \in DOMAIN hpm THEN declinePrs(h, hpm[h], decl, skipped, pm)
  ELSE <<decl, skipped>>

\* variant: the declined check of the allApproved loop is missing
allApprovedIgnoringDeclined(phashes, appr, decl) ==
  \A i \in 1..Len(phashes) :
    Cardinality(appr) > 0 => phashes[i] \in appr

\* processApprovals: the allApproved flag of one PR
allApproved(phashes, appr, decl) ==
  \A i \in 1..Len(phashes) :
    /\ phashes[i] \notin decl
    /\ (Cardinality(appr) > 0 => phashes[i] \in appr)

\* processApprovals: the search for the PR object in hashPrMap
found(prKey, hpm) == \E h \in DOMAIN hpm : prKey \in Range(hpm[h])

\* ---------------------------------------------------------------- states
DiffSets == {S \in SUBSET Hashes : Cardinality(S) <= MaxHunks}

\* ManualApproval has made no decision and no report yet
SessionInit ==
  /\ user = <<>>
  /\ propagate = FALSE
  /\ dryRun = FALSE
  /\ hashes = <<>>
  /\ idx = 0
  /\ approved = {}
  /\ declined = {}
  /\ prSkipped = {}
  /\ firstSeen = EmptyMap
  /\ pending = {}
  /\ approveCalls = [p \in PRs |-> 0]
  /\ report = [p \in PRs |-> "-"]
  /\ visited = <<>>
  /\ answers = [h \in Hashes |-> 0]
  /\ last = [op |-> "init", h |-> 0]
  /\ eof = FALSE

\* no getPrHash call is looked at
ExtractorIdle ==
  /\ exPc = "idle"
  /\ exDiff = <<>>
  /\ exHashes = <<>>
  /\ exHunkMap = EmptyMap

\* no removeDependabotTrailingCommand call is looked at
CleanerIdle ==
  /\ utPc = "idle"
  /\ body = <<>>
  /\ cleaned = <<>>

\* what an ApprovePr call is given: the pull request object and the
\* outcome of each request to GitHub it may send
ApproveInputs ==
  [prNil : BOOLEAN, baseOk : BOOLEAN, refsOk : BOOLEAN,
   behind : {"err", "behind", "upToDate"}, update : BOOLEAN,
   review : BOOLEAN, nodeID : BOOLEAN, autoMerge : BOOLEAN,
   squash : BOOLEAN]

\* no ApprovePr call is looked at
ApproverIdle ==
  /\ apPc = "idle"
  /\ apIn = [prNil |-> FALSE, baseOk |-> TRUE, refsOk |-> TRUE,
             behind |-> "upToDate", update |-> TRUE, review |-> TRUE,
             nodeID |-> TRUE, autoMerge |-> TRUE, squash |-> TRUE]
  /\ apLog = <<>>
  /\ apRet = "-"

\* no GUI program is running
GuiIdle ==
  /\ hashIndex = 0
  /\ focusRow = 0
  /\ guiPc = "idle"

\* the collector has returned the indices of one notification per pull
\* request, and ManualApproval is about to read them
Init ==
  /\ \E cat \in 1..Len(Catalogs), diffs \in [PRs -> DiffSets] :
       LET ix == GetPrReviewRequested(cat, diffs, NumPRs)
       IN /\ userHashPrMap = ix.user
          /\ changeMap = ix.change
          /\ hashPrMap = ix.hash
          /\ prMap = ix.pr
  /\ notifs = [i \in PRs |-> [pr |-> i, reason |-> "review_requested"]]
  /\ cpc = "returned"
  /\ tpc = [i \in PRs |-> "done"]
  /\ tout = [i \in PRs |-> "merged"]
  /\ mutex = 0
  /\ egErr = FALSE
  /\ ret = [err |-> FALSE, maps |-> TRUE]
  /\ pc = "start"
  /\ SessionInit
  /\ ExtractorIdle
  /\ CleanerIdle
  /\ ApproverIdle
  /\ GuiIdle

\* the hash the walk is at
cur == hashes[idx + 1]

\* variant: the collector's error is not looked at
StartIgnoringError ==
  /\ pc = "start"
  /\ \E usr \in UserInputs, prop \in BOOLEAN, dry \in BOOLEAN :
       /\ user' = usr
       /\ propagate' = prop
       /\ dryRun' = dry
       /\ hashes' = collectHashesForUsers(usr, userHashPrMap)
       /\ pc' = IF Len(hashes') = 0 THEN "done" ELSE "walk"
  /\ last' = [op |-> "start", h |-> 0]
  /\ UNCHANGED <<indexVars, colVars, exVars, utilVars, apVars, guiVars, eof, idx, approved, declined, prSkipped,
                 firstSeen, pending, approveCalls, report, visited, answers>>

\* ManualApproval up to the walk: arguments, the collector's result, hash
\* list, fresh session
Start ==
  /\ pc = "start"
  /\ \E usr \in UserInputs, prop \in BOOLEAN, dry \in BOOLEAN :
       /\ user' = usr
       /\ propagate' = prop
       /\ dryRun' = dry
       /\ IF ret.err
          THEN /\ hashes' = hashes
               /\ pc' = "error"
               /\ last' = [op |-> "returnErr", h |-> 0]
          ELSE /\ hashes' = collectHashesForUsers(usr, userHashPrMap)
               /\ pc' = IF Len(hashes') = 0 THEN "done" ELSE "walk"
               /\ last' = [op |-> "start", h |-> 0]
  /\ UNCHANGED <<indexVars, colVars, exVars, utilVars, apVars, guiVars, eof, idx, approved, declined, prSkipped, firstSeen,
                 pending, approveCalls, report, visited, answers>>

\* variant: a duplicate-collapse approval propagates like an answer
VisitHashPropagatingDup ==
  /\ pc = "walk"
  /\ idx < Len(hashes)
  /\ LET h == cur
         dup == isAllDuplicateApproved(h, changeMap, firstSeen, approved)
     IN /\ visited' = Append(visited, h)
        /\ IF h \in approved \/ h \in declined
           THEN /\ last' = [op |-> "skipDecided", h |-> h]
                /\ idx' = idx + 1
                /\ UNCHANGED <<pc, approved, firstSeen>>
           ELSE IF \E pr \in Range(Lookup(hashPrMap, h)) : pr \in prSkipped
           THEN /\ last' = [op |-> "skipPr", h |-> h]
                /\ idx' = idx + 1
                /\ UNCHANGED <<pc, approved, firstSeen>>
           ELSE IF dup[1]
           THEN /\ last' = [op |-> "autoDup", h |-> h]
                /\ approved' = IF propagate
                               THEN autoApproveLinkedHashes(
                                      h, approved \cup {h}, declined,
                                      hashPrMap, prMap)
                               ELSE approved \cup {h}
                /\ idx' = idx + 1
                /\ UNCHANGED <<pc, firstSeen>>
           ELSE /\ last' = [op |-> "prompt", h |-> h]
                /\ firstSeen' = IF h \in DOMAIN changeMap
                                THEN printChangesAndMarkFirstSeen(
                                       h, changeMap[h], firstSeen)
                                ELSE firstSeen
                /\ pc' = "prompt"
                /\ UNCHANGED <<idx, approved>>
  /\ UNCHANGED <<indexVars, colVars, exVars, utilVars, apVars, guiVars, eof, argVars, hashes, declined, prSkipped, pending,
                 approveCalls, report, answers>>

\* one iteration of the walk, up to its continue or its prompt
VisitHash ==
  /\ pc = "walk"
  /\ idx < Len(hashes)
  /\ LET h == cur
         dup == isAllDuplicateApproved(h, changeMap, firstSeen, approved)
     IN /\ visited' = Append(visited, h)
        /\ IF h \in approved \/ h \in declined
           THEN /\ last' = [op |-> "skipDecided", h |-> h]
                /\ idx' = idx + 1
                /\ UNCHANGED <<pc, approved, firstSeen>>
           ELSE IF \E pr \in Range(Lookup(hashPrMap, h)) : pr \in prSkipped
           THEN /\ last' = [op |-> "skipPr", h |-> h]
                /\ idx' = idx + 1
                /\ UNCHANGED <<pc, approved, firstSeen>>
           ELSE IF dup[1]
           THEN /\ last' = [op |-> "autoDup", h |-> h]
                /\ approved' = approved \cup {h}
                /\ idx' = idx + 1
                /\ UNCHANGED <<pc, firstSeen>>
           ELSE /\ last' = [op |-> "prompt", h |-> h]
                /\ firstSeen' = IF h \in DOMAIN changeMap
                                THEN printChangesAndMarkFirstSeen(
                                       h, changeMap[h], firstSeen)
                                ELSE firstSeen
                /\ pc' = "prompt"
                /\ UNCHANGED <<idx, approved>>
  /\ UNCHANGED <<indexVars, colVars, exVars, utilVars, apVars, guiVars, eof, argVars, hashes, declined, prSkipped, pending,
                 approveCalls, report, answers>>

\* variant: an approve answer propagates whatever the propagate flag says
AnswerApprovePropagating ==
  /\ pc = "prompt"
  /\ ~eof
  /\ approved' = autoApproveLinkedHashes(cur, approved \cup {cur},
                                         declined, hashPrMap, prMap)
  /\ answers' = [answers EXCEPT ![cur] = @ + 1]
  /\ last' = [op |-> "approve", h |-> cur]
  /\ idx' = idx + 1
  /\ pc' = "walk"
  /\ UNCHANGED <<indexVars, colVars, exVars, utilVars, apVars, guiVars, eof, argVars, hashes, declined, prSkipped, firstSeen,
                 pending, approveCalls, report, visited>>

\* variant: an approve answer withdraws the declines of the linked hashes
AnswerApproveUndeclining ==
  /\ pc = "prompt"
  /\ ~eof
  /\ approved' = approved \cup {cur}
  /\ declined' = declined \ UNION {Range(Lookup(prMap, p)) :
                                      p \in Range(Lookup(hashPrMap, cur))}
  /\ answers' = [answers EXCEPT ![cur] = @ + 1]
  /\ last' = [op |-> "approve", h |-> cur]
  /\ idx' = idx + 1
  /\ pc' = "walk"
  /\ UNCHANGED <<indexVars, colVars, exVars, utilVars, apVars, guiVars, eof, argVars, hashes,
                 prSkipped, firstSeen, pending, approveCalls, report, visited>>

\* promptActionForHash, input "y" or "a"
AnswerApprove ==
  /\ pc = "prompt"
  /\ ~eof
  /\ approved' = IF propagate
                 THEN autoApproveLinkedHashes(cur, approved \cup {cur},
                                              declined, hashPrMap, prMap)
                 ELSE approved \cup {cur}
  /\ answers' = [answers EXCEPT ![cur] = @ + 1]
  /\ last' = [op |-> "approve", h |-> cur]
  /\ idx' = idx + 1
  /\ pc' = "walk"
  /\ UNCHANGED <<indexVars, colVars, exVars, utilVars, apVars, guiVars, eof, argVars, hashes, declined, prSkipped, firstSeen,
                 pending, approveCalls, report, visited>>

\* promptActionForHash, input "n" or "d"
AnswerDecline ==
  /\ pc = "prompt"
  /\ ~eof
  /\ LET r == autoDeclineLinkedHashes(cur, declined \cup {cur}, prSkipped,
                                      hashPrMap, prMap)
     IN /\ declined' = r[1]
        /\ prSkipped' = r[2]
  /\ answers' = [answers EXCEPT ![cur] = @ + 1]
  /\ last' = [op |-> "decline", h |-> cur]
  /\ idx' = idx + 1
  /\ pc' = "walk"
  /\ UNCHANGED <<indexVars, colVars, exVars, utilVars, apVars, guiVars, eof, argVars, hashes, approved, firstSeen, pending,
                 approveCalls, report, visited>>

\* variant: "q" leaves the walk like a break, and the commit stage runs
AnswerQuitBreaking ==
  /\ pc = "prompt"
  /\ ~eof
  /\ pc' = "commit"
  /\ pending' = DOMAIN prMap
  /\ last' = [op |-> "quit", h |-> cur]
  /\ UNCHANGED <<indexVars, colVars, exVars, utilVars, apVars, guiVars, eof, argVars, hashes, idx, approved, declined,
                 prSkipped, firstSeen, approveCalls, report, visited,
                 answers>>

\* promptActionForHash, input "q": os.Exit(0)
AnswerQuit ==
  /\ pc = "prompt"
  /\ ~eof
  /\ pc' = "exited"
  /\ last' = [op |-> "quit", h |-> cur]
  /\ UNCHANGED <<indexVars, colVars, exVars, utilVars, apVars, guiVars, eof, argVars, hashes, idx, approved, declined,
                 prSkipped, firstSeen, pending, approveCalls, report,
                 visited, answers>>

\* variant: a comment that cannot be fetched ends the prompt loop
AnswerShowCommentEndingOnError ==
  /\ pc = "prompt"
  /\ ~eof
  /\ \E failed \in BOOLEAN :
       /\ last' = [op |-> IF failed THEN "showCommentErr" ELSE "showComment",
                   h |-> cur]
       /\ pc' = IF failed THEN "walk" ELSE pc
       /\ idx' = IF failed THEN idx + 1 ELSE idx
  /\ UNCHANGED <<indexVars, colVars, exVars, utilVars, apVars, guiVars, eof, argVars, hashes,
                 approved, declined, prSkipped, firstSeen, pending,
                 approveCalls, report, visited, answers>>

\* promptActionForHash, input "s": the comment of each pull request of the
\* hash is fetched (a failed fetch is reported) and the comments are printed
AnswerShowComment ==
  /\ pc = "prompt"
  /\ ~eof
  /\ \E failed \in BOOLEAN :
       last' = [op |-> IF failed THEN "showCommentErr" ELSE "showComment",
                h |-> cur]
  /\ UNCHANGED <<indexVars, colVars, exVars, utilVars, apVars, guiVars, eof, argVars, hashes, idx, approved, declined,
                 prSkipped, firstSeen, pending, approveCalls, report,
                 visited, answers, pc>>

\* promptActionForHash, any other input: the prompt is repeated
AnswerOther ==
  /\ pc = "prompt"
  /\ last' = [op |-> "other", h |-> cur]
  /\ UNCHANGED <<indexVars, colVars, exVars, utilVars, apVars, guiVars, eof, argVars, hashes, idx, approved, declined,
                 prSkipped, firstSeen, pending, approveCalls, report,
                 visited, answers, pc>>

\* the walk is over: processApprovals starts to range over prMap
WalkDone ==
  /\ pc = "walk"
  /\ idx = Len(hashes)
  /\ pc' = "commit"
  /\ pending' = DOMAIN prMap
  /\ last' = [op |-> "walkDone", h |-> 0]
  /\ UNCHANGED <<indexVars, colVars, exVars, utilVars, apVars, guiVars, eof, argVars, hashes, idx, approved, declined,
                 prSkipped, firstSeen, approveCalls, report, visited,
                 answers>>

\* variant: a failed approve action ends the batch
ProcessPrStoppingOnFailure(prKey) ==
  /\ pc = "commit"
  /\ prKey \in pending
  /\ last' = [op |-> "processPr", h |-> 0]
  /\ LET phashes == prMap[prKey]
         eligible == /\ Len(phashes) > 0
                     /\ prKey \notin prSkipped
                     /\ allApproved(phashes, approved, declined)
                     /\ found(prKey, hashPrMap)
     IN IF eligible
        THEN /\ approveCalls' = [approveCalls EXCEPT ![prKey] = @ + 1]
             /\ \E ok \in BOOLEAN :
                  /\ report' = [report EXCEPT ![prKey] =
                                  IF dryRun THEN "would approve"
                                  ELSE IF ok THEN "approved" ELSE "failed"]
                  /\ pending' = IF dryRun \/ ok THEN pending \ {prKey} ELSE {}
        ELSE /\ pending' = pending \ {prKey}
             /\ report' = [report EXCEPT ![prKey] =
                             IF Len(phashes) = 0 THEN @
                             ELSE IF prKey \in prSkipped THEN "not approving"
                             ELSE IF allApproved(phashes, approved, declined)
                             THEN "not found" ELSE @]
             /\ UNCHANGED approveCalls
  /\ UNCHANGED <<indexVars, colVars, exVars, utilVars, apVars, guiVars, eof, argVars, hashes, idx, approved, declined,
                 prSkipped, firstSeen, visited, answers, pc>>

\* variant: the approve action is called whatever the dry-run flag says
ProcessPrIgnoringDryRun(prKey) ==
  /\ pc = "commit"
  /\ prKey \in pending
  /\ pending' = pending \ {prKey}
  /\ last' = [op |-> "processPr", h |-> 0]
  /\ LET phashes == prMap[prKey]
         eligible == /\ Len(phashes) > 0
                     /\ prKey \notin prSkipped
                     /\ allApproved(phashes, approved, declined)
                     /\ found(prKey, hashPrMap)
     IN IF eligible
        THEN /\ approveCalls' = [approveCalls EXCEPT ![prKey] = @ + 1]
             /\ \E ok \in BOOLEAN :
                  report' = [report EXCEPT ![prKey] =
                               IF ok THEN "approved" ELSE "failed"]
        ELSE /\ report' = [report EXCEPT ![prKey] =
                             IF Len(phashes) = 0 THEN @
                             ELSE IF prKey \in prSkipped THEN "not approving"
                             ELSE IF allApproved(phashes, approved, declined)
                             THEN "not found" ELSE @]
             /\ UNCHANGED approveCalls
  /\ UNCHANGED <<indexVars, colVars, exVars, utilVars, apVars, guiVars, eof, argVars, hashes, idx, approved, declined,
                 prSkipped, firstSeen, visited, answers, pc>>

\* one iteration of processApprovals (Go ranges over prMap in any order)
ProcessPr(prKey) ==
  /\ pc = "commit"
  /\ prKey \in pending
  /\ pending' = pending \ {prKey}
  /\ last' = [op |-> "processPr", h |-> 0]
  /\ LET phashes == prMap[prKey]
     IN IF Len(phashes) = 0
        THEN UNCHANGED <<approveCalls, report>>
        ELSE IF prKey \in prSkipped
        THEN /\ report' = [report EXCEPT ![prKey] = "not approving"]
             /\ UNCHANGED approveCalls
        ELSE IF allApproved(phashes, approved, declined)
        THEN IF found(prKey, hashPrMap)
             THEN /\ approveCalls' = [approveCalls EXCEPT ![prKey] = @ + 1]
                  /\ IF dryRun
                     THEN report' = [report EXCEPT ![prKey] = "would approve"]
                     ELSE \E ok \in BOOLEAN :
                            report' = [report EXCEPT ![prKey] =
                                         IF ok THEN "approved" ELSE "failed"]
             ELSE /\ report' = [report EXCEPT ![prKey] = "not found"]
                  /\ UNCHANGED approveCalls
        ELSE UNCHANGED <<approveCalls, report>>
  /\ UNCHANGED <<indexVars, colVars, exVars, utilVars, apVars, guiVars, eof, argVars, hashes, idx, approved, declined,
                 prSkipped, firstSeen, visited, answers, pc>>

\* processApprovals and ManualApproval return
CommitDone ==
  /\ pc = "commit"
  /\ pending = {}
  /\ pc' = "done"
  /\ last' = [op |-> "return", h |-> 0]
  /\ UNCHANGED <<indexVars, colVars, exVars, utilVars, apVars, guiVars, eof, argVars, hashes, idx, approved, declined,
                 prSkipped, firstSeen, pending, approveCalls, report,
                 visited, answers>>

Next ==
  \/ Start
  \/ VisitHash
  \/ AnswerApprove
  \/ AnswerDecline
  \/ AnswerQuit
  \/ AnswerShowComment
  \/ AnswerOther
  \/ WalkDone
  \/ \E prKey \in PRs : ProcessPr(prKey)
  \/ CommitDone

Spec == Init /\ [][Next]_vars

\* the operator's input ends: in.ReadString returns what is left, here
\* nothing, with io.EOF from now on
EndOfInput ==
  /\ pc = "prompt"
  /\ ~eof
  /\ eof' = TRUE
  /\ UNCHANGED <<indexVars, colVars, exVars, utilVars, apVars, guiVars,
                 argVars, hashes, idx, approved, declined, prSkipped,
                 firstSeen, pending, approveCalls, report, visited, answers,
                 last, pc>>

NextInput ==
  \/ EndOfInput
  \/ Next

\* the decision pass on an input that may end; the program always takes
\* its next step
SpecInput == Init /\ [][NextInput]_vars /\ WF_vars(Next)

\* ------------------------------------------- GetPrReviewRequested, running
\* the errgroup's limit on goroutines in flight
CONCURRENCY_LIMIT == 10

Notifs == 1..NumNotifs

\* what a notification carries for the collector: the pull request of its
\* subject URL and its reason
NotifSet == [pr : PRs, reason : {"review_requested", "subscribed"}]

\* getPrHash of pull request p: three hunks with a change line, the third
\* a repeat of the first; the second occurs in the next pull request too
prDiff(p) ==
  LET h1 == ((p - 1) % NumHashes) + 1
      h2 == (p % NumHashes) + 1
  IN <<h1, h2, h1>>

Indices == [user |-> userHashPrMap, change |-> changeMap,
            hash |-> hashPrMap, pr |-> prMap]

\* goroutines started by eg.Go that have not returned
inFlight == {i \in DOMAIN tpc : tpc[i] \notin {"idle", "done"}}

\* GetPrReviewRequested is called: the maps are made, nothing is listed yet
InitCollect ==
  /\ notifs \in UNION {[1..n -> NotifSet] : n \in 0..NumNotifs}
  /\ cpc = "list"
  /\ tpc = [i \in DOMAIN notifs |-> "idle"]
  /\ tout = [i \in DOMAIN notifs |-> "-"]
  /\ mutex = 0
  /\ egErr = FALSE
  /\ ret = [err |-> FALSE, maps |-> FALSE]
  /\ userHashPrMap = EmptyMap
  /\ changeMap = EmptyMap
  /\ hashPrMap = EmptyMap
  /\ prMap = EmptyMap
  /\ pc = "collect"
  /\ SessionInit
  /\ ExtractorIdle
  /\ CleanerIdle
  /\ ApproverIdle
  /\ GuiIdle

\* g.getNotifications() returns the list or an error
getNotifications ==
  /\ cpc = "list"
  /\ \E ok \in BOOLEAN :
       IF ok
       THEN /\ cpc' = "loop"
            /\ UNCHANGED <<ret, pc>>
       ELSE /\ cpc' = "returned"
            /\ ret' = [err |-> TRUE, maps |-> FALSE]
            /\ pc' = "start"
  /\ UNCHANGED <<indexVars, notifs, tpc, tout, mutex, egErr, SessionVars, exVars, utilVars, apVars, guiVars>>

\* variant: eg.Go starts the goroutine without waiting for a free slot
SpawnUnlimited(i) ==
  /\ i \in DOMAIN notifs
  /\ cpc = "loop"
  /\ tpc[i] = "idle"
  /\ \A j \in 1..(i - 1) : tpc[j] # "idle"
  /\ tpc' = [tpc EXCEPT ![i] = "running"]
  /\ UNCHANGED <<indexVars, notifs, cpc, tout, mutex, egErr, ret, pc,
                 SessionVars, exVars, utilVars, apVars, guiVars>>

\* eg.Go for notification i: waits for a free slot, starts the goroutine
Spawn(i) ==
  /\ i \in DOMAIN notifs
  /\ cpc = "loop"
  /\ tpc[i] = "idle"
  /\ \A j \in 1..(i - 1) : tpc[j] # "idle"
  /\ Cardinality(inFlight) < CONCURRENCY_LIMIT
  /\ tpc' = [tpc EXCEPT ![i] = "running"]
  /\ UNCHANGED <<indexVars, notifs, cpc, tout, mutex, egErr, ret, pc,
                 SessionVars, exVars, utilVars, apVars, guiVars>>

\* variant: the reason of the notification is not looked at
ResolveIgnoringReason(i) ==
  /\ i \in DOMAIN notifs
  /\ tpc[i] = "running"
  /\ \E o \in {"getErr", "notOpen", "diffErr", "ok", "empty"} :
       /\ tpc' = [tpc EXCEPT ![i] = IF o \in {"ok", "empty"}
                                    THEN "ready" ELSE "done"]
       /\ tout' = [tout EXCEPT ![i] = IF o = "ok" THEN @ ELSE o]
       /\ egErr' = (egErr \/ o \in {"getErr", "diffErr"})
  /\ UNCHANGED <<indexVars, notifs, cpc, mutex, ret, pc, SessionVars, exVars,
                 utilVars, apVars, guiVars>>

\* the goroutine of notification i up to m.Lock(): reason test, pull
\* request fetch, state test, getPrHash (outcome "empty": the diff has no
\* hunk with a change line)
Resolve(i) ==
  /\ i \in DOMAIN notifs
  /\ tpc[i] = "running"
  /\ IF notifs[i].reason # "review_requested"
     THEN /\ tpc' = [tpc EXCEPT ![i] = "done"]
          /\ tout' = [tout EXCEPT ![i] = "skipped"]
          /\ UNCHANGED egErr
     ELSE \E o \in {"getErr", "notOpen", "diffErr", "ok", "empty"} :
            /\ tpc' = [tpc EXCEPT ![i] = IF o \in {"ok", "empty"}
                                         THEN "ready" ELSE "done"]
            /\ tout' = [tout EXCEPT ![i] = IF o = "ok" THEN @ ELSE o]
            /\ egErr' = (egErr \/ o \in {"getErr", "diffErr"})
  /\ UNCHANGED <<indexVars, notifs, cpc, mutex, ret, pc, SessionVars, exVars, utilVars, apVars, guiVars>>

\* variant: the merge section is entered without waiting for the mutex
LockWithoutWaiting(i) ==
  /\ i \in DOMAIN notifs
  /\ tpc[i] = "ready"
  /\ mutex' = i
  /\ tpc' = [tpc EXCEPT ![i] = "locked"]
  /\ UNCHANGED <<indexVars, notifs, cpc, tout, egErr, ret, pc, SessionVars,
                 exVars, utilVars, apVars, guiVars>>

\* m.Lock()
Lock(i) ==
  /\ i \in DOMAIN notifs
  /\ tpc[i] = "ready"
  /\ mutex = 0
  /\ mutex' = i
  /\ tpc' = [tpc EXCEPT ![i] = "locked"]
  /\ UNCHANGED <<indexVars, notifs, cpc, tout, egErr, ret, pc, SessionVars, exVars, utilVars, apVars, guiVars>>

\* the merge section, m.Unlock() and the goroutine's return
MergeUnlock(i) ==
  /\ i \in DOMAIN notifs
  /\ tpc[i] = "locked"
  /\ LET prHash == IF tout[i] = "empty" THEN <<>> ELSE prDiff(notifs[i].pr)
         ix == mergePr(Indices, notifs[i].pr, prHash, hunkMapOf(1, prHash))
     IN /\ userHashPrMap' = ix.user
        /\ changeMap' = ix.change
        /\ hashPrMap' = ix.hash
        /\ prMap' = ix.pr
  /\ mutex' = 0
  /\ tpc' = [tpc EXCEPT ![i] = "done"]
  /\ tout' = [tout EXCEPT ![i] = IF @ = "empty" THEN "mergedEmpty"
                                  ELSE "merged"]
  /\ UNCHANGED <<notifs, cpc, egErr, ret, pc, SessionVars, exVars, utilVars, apVars, guiVars>>

\* eg.Wait() and the return of GetPrReviewRequested
Wait ==
  /\ cpc = "loop"
  /\ \A i \in DOMAIN tpc : tpc[i] = "done"
  /\ cpc' = "returned"
  /\ pc' = "start"
  /\ IF ~egErr
     THEN /\ ret' = [err |-> FALSE, maps |-> TRUE]
          /\ UNCHANGED indexVars
     ELSE /\ ret' = [err |-> FALSE, maps |-> FALSE]
          /\ userHashPrMap' = EmptyMap
          /\ changeMap' = EmptyMap
          /\ hashPrMap' = EmptyMap
          /\ prMap' = EmptyMap
  /\ UNCHANGED <<notifs, tpc, tout, mutex, egErr, SessionVars, exVars, utilVars, apVars, guiVars>>

NextCollect ==
  \/ getNotifications
  \/ \E i \in Notifs : Spawn(i)
  \/ \E i \in Notifs : Resolve(i)
  \/ \E i \in Notifs : Lock(i)
  \/ \E i \in Notifs : MergeUnlock(i)
  \/ Wait
  \/ Next

SpecCollect == InitCollect /\ [][NextCollect]_vars

\* GetPrReviewRequested is called and the listing will return more
\* notifications than the errgroup admits goroutines; only the first has
\* the reason review_requested, so that the others end in one step
InitLimit ==
  /\ notifs = [i \in 1..NumBurst |->
                 [pr |-> 1,
                  reason |-> IF i = 1 THEN "review_requested"
                             ELSE "subscribed"]]
  /\ cpc = "list"
  /\ tpc = [i \in DOMAIN notifs |-> "idle"]
  /\ tout = [i \in DOMAIN notifs |-> "-"]
  /\ mutex = 0
  /\ egErr = FALSE
  /\ ret = [err |-> FALSE, maps |-> FALSE]
  /\ userHashPrMap = EmptyMap
  /\ changeMap = EmptyMap
  /\ hashPrMap = EmptyMap
  /\ prMap = EmptyMap
  /\ pc = "collect"
  /\ SessionInit
  /\ ExtractorIdle
  /\ CleanerIdle
  /\ ApproverIdle
  /\ GuiIdle

NextLimit ==
  \/ getNotifications
  \/ \E i \in 1..NumBurst : Spawn(i)
  \/ \E i \in 1..NumBurst : Resolve(i)
  \/ \E i \in 1..NumBurst : Lock(i)
  \/ \E i \in 1..NumBurst : MergeUnlock(i)
  \/ Wait

SpecLimit == InitLimit /\ [][NextLimit]_vars

\* ------------------------------------------------------------- getPrHash
\* A line of diff text is a sequence of characters.  The lines that occur:
\* a hunk header, an added and a removed line, a context line, and the two
\* file-header lines
DiffLines == { <<"@", "@">>, <<"+", "a">>, <<"-", "a">>, <<" ", "a">>,
               <<"+", "+", "+">>, <<"-", "-", "-">> }

\* strings.HasPrefix
HasPrefix(line, prefix) ==
  Len(line) >= Len(prefix) /\ SubSeq(line, 1, Len(prefix)) = prefix

RECURSIVE Join(_, _)
\* strings.Join
Join(elems, sep) ==
  IF Len(elems) = 0 THEN <<>>
  ELSE IF Len(elems) = 1 THEN elems[1]
  ELSE elems[1] \o sep \o Join(Tail(elems), sep)

\* hex.EncodeToString(sha256.Sum256(b)): a digest without collisions
sha256hex(b) == <<"sha256">> \o b

\* variant: every line of a hunk that starts with + or - is accumulated
isChangeLineWithFileHeaders(line) ==
  HasPrefix(line, <<"+">>) \/ HasPrefix(line, <<"-">>)

\* the test getPrHash makes on a line inside a hunk
isChangeLine(line) ==
  /\ HasPrefix(line, <<"+">>) \/ HasPrefix(line, <<"-">>)
  /\ ~HasPrefix(line, <<"+", "+", "+">>)
  /\ ~HasPrefix(line, <<"-", "-", "-">>)

\* the accumulated hunk is hashed and recorded
closeHunk(st) ==
  LET h == sha256hex(Join(st.hunkLines, <<"\n">>))
  IN [st EXCEPT !.hashes = Append(@, h),
                !.hunkMap = Put(@, h, st.hunkLines),
                !.hunkLines = <<>>]

RECURSIVE scanLines(_, _)
\* the loop over strings.Split(diff, "\n")
scanLines(lines, st) ==
  IF lines = <<>> THEN st
  ELSE LET line == Head(lines)
           st2 == IF HasPrefix(line, <<"@", "@">>)
                  THEN [(IF Len(st.hunkLines) > 0 THEN closeHunk(st) ELSE st)
                          EXCEPT !.inHunk = TRUE]
                  ELSE IF st.inHunk /\ isChangeLine(line)
                  THEN [st EXCEPT !.hunkLines = Append(@, line)]
                  ELSE st
       IN scanLines(Tail(lines), st2)

\* variant: the hunk that is open at the end of the input is not hashed
getPrHashDroppingOpenHunk(lines) ==
  scanLines(lines, [hashes |-> <<>>, hunkLines |-> <<>>,
                    inHunk |-> FALSE, hunkMap |-> EmptyMap])

\* getPrHash on a fetched diff: the fingerprints and the hunkMap
getPrHash(lines) ==
  LET st == scanLines(lines, [hashes |-> <<>>, hunkLines |-> <<>>,
                              inHunk |-> FALSE, hunkMap |-> EmptyMap])
  IN IF Len(st.hunkLines) > 0 THEN closeHunk(st) ELSE st

\* getPrHash has fetched a diff
InitExtract ==
  /\ exDiff \in UNION {[1..n -> DiffLines] : n \in 0..MaxDiffLines}
  /\ exPc = "scan"
  /\ exHashes = <<>>
  /\ exHunkMap = EmptyMap
  /\ CleanerIdle
  /\ ApproverIdle
  /\ GuiIdle
  /\ notifs = <<>>
  /\ cpc = "loop"
  /\ tpc = <<>>
  /\ tout = <<>>
  /\ mutex = 0
  /\ egErr = FALSE
  /\ ret = [err |-> FALSE, maps |-> FALSE]
  /\ userHashPrMap = EmptyMap
  /\ changeMap = EmptyMap
  /\ hashPrMap = EmptyMap
  /\ prMap = EmptyMap
  /\ pc = "collect"
  /\ SessionInit

\* getPrHash scans the diff and returns
ReturnPrHash ==
  /\ exPc = "scan"
  /\ LET st == getPrHash(exDiff)
     IN /\ exHashes' = st.hashes
        /\ exHunkMap' = st.hunkMap
  /\ exPc' = "returned"
  /\ UNCHANGED <<indexVars, colVars, SessionVars, utilVars, apVars, guiVars, pc, exDiff>>

NextExtract == ReturnPrHash

SpecExtract == InitExtract /\ [][NextExtract]_vars

\* ---------------------------------------- removeDependabotTrailingCommand
\* A text is a sequence of tokens: a newline, a blank, or a run of other
\* characters.  The lines of a body that occur: an empty line, a line of a
\* blank, text, text followed by a blank, a line that starts with a
\* Dependabot command, a line that mentions Dependabot, a line with the
\* word merge, and the header of the command block
BodyLines == { <<>>, <<" ">>, <<"text">>, <<"text", " ">>,
               <<"@dependabot rebase">>, <<"Dependabot">>, <<"merge">>,
               <<"Dependabot commands and options">> }

\* lines the look-ahead for a command block reads: lines[i:minInt(i+8, len)]
LookAheadLines == 8

minInt(a, b) == IF a < b THEN a ELSE b

IsSpace(t) == t \in {" ", "\n"}

RECURSIVE TrimLeft(_)
TrimLeft(t) == IF t # <<>> /\ IsSpace(Head(t)) THEN TrimLeft(Tail(t)) ELSE t

RECURSIVE TrimRight(_)
\* strings.TrimRightFunc with the test for newline, return, blank and tab
TrimRight(t) ==
  IF t # <<>> /\ IsSpace(t[Len(t)])
  THEN TrimRight(SubSeq(t, 1, Len(t) - 1)) ELSE t

\* strings.TrimSpace
TrimSpace(t) == TrimRight(TrimLeft(t))

\* strings.ToLower
ToLower(t) ==
  [i \in 1..Len(t) |->
     CASE t[i] = "Dependabot" -> "dependabot"
       [] t[i] = "Dependabot commands and options"
            -> "dependabot commands and options"
       [] OTHER -> t[i]]

\* strings.Contains, for the needles the cleaner looks for
Contains(t, needle) ==
  \E i \in 1..Len(t) :
    \/ t[i] = needle
    \/ needle = "dependabot" /\ t[i] \in {"@dependabot rebase",
                                           "dependabot commands and options"}
    \/ needle = "@dependabot" /\ t[i] = "@dependabot rebase"
    \/ needle = "rebase" /\ t[i] = "@dependabot rebase"

\* strings.HasPrefix(t, "@dependabot")
HasCommandPrefix(t) == t # <<>> /\ t[1] = "@dependabot rebase"

RECURSIVE Split(_, _)
\* strings.Split(t, "\n")
Split(t, acc) ==
  IF t = <<>> THEN <<acc>>
  ELSE IF Head(t) = "\n" THEN <<acc>> \o Split(Tail(t), <<>>)
  ELSE Split(Tail(t), Append(acc, Head(t)))

\* variant: the blank lines accumulated before the marker are kept
keepTrailingBlankLines(out) == out

RECURSIVE dropTrailingBlankLines(_)
\* the loop that trims trailing blank lines from the accumulated output
dropTrailingBlankLines(out) ==
  IF Len(out) > 0 /\ TrimSpace(out[Len(out)]) = <<>>
  THEN dropTrailingBlankLines(SubSeq(out, 1, Len(out) - 1)) ELSE out

\* the two tests of the loop body that end the output at line i
startsCommandBlock(lines, i) ==
  LET trim == TrimSpace(lines[i])
      low == ToLower(trim)
      lookAhead == ToLower(Join(SubSeq(lines, i,
                                       minInt(i + LookAheadLines - 1,
                                              Len(lines))),
                                <<" ", "\n", " ">>))
  IN \/ Contains(low, "dependabot commands and options")
     \/ HasCommandPrefix(trim)
     \/ /\ Contains(low, "dependabot")
        /\ \/ Contains(lookAhead, "@dependabot")
           \/ Contains(lookAhead, "rebase")
           \/ Contains(lookAhead, "recreate")
           \/ Contains(lookAhead, "merge")

RECURSIVE scanBody(_, _, _)
\* the loop over the lines, from line i on, with the output so far
scanBody(lines, i, out) ==
  IF i > Len(lines) THEN TrimRight(Join(out, <<"\n">>))
  ELSE IF startsCommandBlock(lines, i)
  THEN Join(dropTrailingBlankLines(out), <<"\n">>)
  ELSE scanBody(lines, i + 1, Append(out, lines[i]))

removeDependabotTrailingCommand(input) ==
  IF TrimSpace(input) = <<>> THEN input
  ELSE scanBody(Split(input, <<>>), 1, <<>>)

\* removeDependabotTrailingCommand is called with a body
InitClean ==
  /\ body \in UNION {[1..n -> BodyLines] : n \in 1..MaxBodyLines}
  /\ utPc = "call"
  /\ cleaned = <<>>
  /\ ExtractorIdle
  /\ notifs = <<>>
  /\ cpc = "loop"
  /\ tpc = <<>>
  /\ tout = <<>>
  /\ mutex = 0
  /\ egErr = FALSE
  /\ ret = [err |-> FALSE, maps |-> FALSE]
  /\ userHashPrMap = EmptyMap
  /\ changeMap = EmptyMap
  /\ hashPrMap = EmptyMap
  /\ prMap = EmptyMap
  /\ pc = "collect"
  /\ SessionInit
  /\ ApproverIdle
  /\ GuiIdle

\* removeDependabotTrailingCommand returns
ReturnCleaned ==
  /\ utPc = "call"
  /\ cleaned' = removeDependabotTrailingCommand(Join(body, <<"\n">>))
  /\ utPc' = "returned"
  /\ UNCHANGED <<indexVars, colVars, SessionVars, exVars, apVars, guiVars,
                 pc, body>>

NextClean == ReturnCleaned

SpecClean == InitClean /\ [][NextClean]_vars

\* ------------------------------------------------ the approve action
\* (pkg/gh ApprovePr).  apLog records the requests the call sends: the
\* compare request of isBranchBehind, the update-branch request, the
\* review, the auto-merge mutation and the squash merge.

\* nothing but the approver is looked at
OnlyApprover ==
  /\ ExtractorIdle
  /\ CleanerIdle
  /\ GuiIdle
  /\ notifs = <<>>
  /\ cpc = "loop"
  /\ tpc = <<>>
  /\ tout = <<>>
  /\ mutex = 0
  /\ egErr = FALSE
  /\ ret = [err |-> FALSE, maps |-> FALSE]
  /\ userHashPrMap = EmptyMap
  /\ changeMap = EmptyMap
  /\ hashPrMap = EmptyMap
  /\ prMap = EmptyMap
  /\ pc = "collect"
  /\ SessionInit

\* ApprovePr is called with some pull request, GitHub in some condition
InitApprove ==
  /\ apIn \in ApproveInputs
  /\ apPc = "entry"
  /\ apLog = <<>>
  /\ apRet = "-"
  /\ OnlyApprover

apFrame == UNCHANGED <<indexVars, colVars, SessionVars, exVars, utilVars,
                       guiVars, pc, apIn>>

\* the nil test and the owner/repo test
ApproveEntry ==
  /\ apPc = "entry"
  /\ IF apIn.prNil
     THEN apPc' = "returned" /\ apRet' = "nil PR"
     ELSE IF ~apIn.baseOk
          THEN apPc' = "returned" /\ apRet' = "unable to determine owner/repo"
          ELSE apPc' = "refs" /\ apRet' = apRet
  /\ UNCHANGED apLog
  /\ apFrame

\* step 1, first half: the refs test and isBranchBehind
CheckBehind ==
  /\ apPc = "refs"
  /\ IF ~apIn.refsOk
     THEN apLog' = apLog /\ apPc' = "review"
     ELSE /\ apLog' = Append(apLog, "isBranchBehind")
          /\ apPc' = IF apIn.behind = "behind" THEN "update" ELSE "review"
  /\ UNCHANGED apRet
  /\ apFrame

\* variant: a failed update of the branch is returned as the error
UpdateBranchFatal ==
  /\ apPc = "update"
  /\ apLog' = Append(apLog, "updateBranch")
  /\ IF apIn.update
     THEN apPc' = "review" /\ apRet' = apRet
     ELSE apPc' = "returned" /\ apRet' = "failed to update branch"
  /\ apFrame

\* step 1, second half: tryUpdateBranch, whose error is only printed
UpdateBranch ==
  /\ apPc = "update"
  /\ apLog' = Append(apLog, "updateBranch")
  /\ apPc' = "review"
  /\ UNCHANGED apRet
  /\ apFrame

\* variant: a failed review is only printed
CreateReviewNonFatal ==
  /\ apPc = "review"
  /\ apLog' = Append(apLog, "createReview")
  /\ apPc' = "auto"
  /\ UNCHANGED apRet
  /\ apFrame

\* step 2: the approving review
CreateReview ==
  /\ apPc = "review"
  /\ apLog' = Append(apLog, "createReview")
  /\ IF apIn.review
     THEN apPc' = "auto" /\ apRet' = apRet
     ELSE apPc' = "returned" /\ apRet' = "failed to create approval"
  /\ apFrame

\* step 3: the node ID test and tryEnableAutoMerge
EnableAutoMerge ==
  /\ apPc = "auto"
  /\ IF ~apIn.nodeID
     THEN /\ apLog' = apLog
          /\ apPc' = "returned"
          /\ apRet' = "no node ID"
     ELSE /\ apLog' = Append(apLog, "enableAutoMerge")
          /\ IF apIn.autoMerge
             THEN apPc' = "returned" /\ apRet' = "nil"
             ELSE apPc' = "squash" /\ apRet' = apRet
  /\ apFrame

\* the fallback: trySquashMerge
SquashMerge ==
  /\ apPc = "squash"
  /\ apLog' = Append(apLog, "squashMerge")
  /\ apPc' = "returned"
  /\ apRet' = IF apIn.squash THEN "nil" ELSE "squash merge failed"
  /\ apFrame

NextApprove ==
  \/ ApproveEntry
  \/ CheckBehind
  \/ UpdateBranch
  \/ CreateReview
  \/ EnableAutoMerge
  \/ SquashMerge

SpecApprove == InitApprove /\ [][NextApprove]_vars

\* ---------------------------------------------------------------- claims
\* the pull requests that contain hash h, and the hashes of pull request p
prsOf(h) == Range(Lookup(hashPrMap, h))
hashesOf(p) == Range(Lookup(prMap, p))

\* processApprovals has run to its end
Committed == pc = "done" /\ last.op = "return"

\* C1: in every state of the decision pass no fingerprint is in both
\* approved and declined.
C1_ApprovedDeclinedDisjoint == approved \cap declined = {}

\* C2: the approve action (or the dry-run report) is issued for a pull
\* request only if every fingerprint of its prMap entry is a key of
\* approved; with approved empty no pull request is acted on.
C2_ActedOnlyIfAllApproved ==
  \A p \in PRs :
    approveCalls[p] > 0 => /\ approved # {}
                           /\ hashesOf(p) \subseteq approved

\* C3: no pull request that is in prSkipped, and none that contains a
\* fingerprint in declined, is passed to the approve action or reported as
\* "would approve".
C3_DeclineVetoes ==
  \A p \in PRs :
    approveCalls[p] > 0 => /\ p \notin prSkipped
                           /\ hashesOf(p) \cap declined = {}

\* C3 witness: the commit stage has passed over a skipped pull request and
\* over one that is not skipped and has all its fingerprints in approved,
\* but one of them in declined too.
C3_Witness ==
  /\ Committed
  /\ \E p \in DOMAIN prMap :
       /\ p \notin prSkipped
       /\ hashesOf(p) \cap declined # {}
       /\ hashesOf(p) \subseteq approved
       /\ approveCalls[p] = 0
  /\ \E q \in prSkipped :
       /\ report[q] = "not approving"
       /\ approveCalls[q] = 0

\* C4: once the commit stage is over, a pull request of prMap was acted on
\* exactly once if it has a fingerprint, is not in prSkipped and all its
\* fingerprints are in approved, and was not acted on otherwise.
C4_EligibilityComplete ==
  Committed =>
    \A p \in DOMAIN prMap :
      approveCalls[p] =
        IF /\ hashesOf(p) # {}
           /\ p \notin prSkipped
           /\ hashesOf(p) \subseteq approved
        THEN 1 ELSE 0

\* C5: a decline answer for h, with propagate on or off, leaves h in
\* declined, every pull request containing h in prSkipped and every
\* fingerprint of those pull requests in declined; running the same decline
\* propagation again changes nothing; and for each of those pull requests
\* the outcome (the PR skipped, all its fingerprints declined) is the same
\* had any other of its fingerprints been the one declined.
C5_DeclinePropagation ==
  [][ (pc = "prompt" /\ last'.op = "decline") =>
        /\ cur \in declined'
        /\ prsOf(cur) \subseteq prSkipped'
        /\ \A p \in prsOf(cur) : hashesOf(p) \subseteq declined'
        /\ autoDeclineLinkedHashes(cur, declined', prSkipped',
                                   hashPrMap, prMap)
             = <<declined', prSkipped'>>
        /\ \A p \in prsOf(cur) : \A g \in hashesOf(p) :
             LET alt == autoDeclineLinkedHashes(g, declined \cup {g},
                                                prSkipped, hashPrMap, prMap)
             IN /\ p \in alt[2]
                /\ hashesOf(p) \subseteq alt[1]
                /\ alt[1] \cap hashesOf(p) = declined' \cap hashesOf(p) ]_vars

\* C5 witness: the operator declined a fingerprint of a pull request that
\* has another fingerprint, which was approved before.
C5_Witness ==
  /\ last.op = "decline"
  /\ \E p \in prsOf(last.h) : \E g \in hashesOf(p) :
       g # last.h /\ g \in approved /\ g \in declined

\* the fingerprints that share a pull request with h
linkedOf(h) == UNION {hashesOf(p) : p \in prsOf(h)}

\* C6: with propagation on, an approve answer for h puts into approved h
\* and every fingerprint of every pull request containing h that was not
\* declined, and changes nothing else (one hop only); and when PR 1 has the
\* fingerprints {1, 2}, which occur in no other pull request, approving 1
\* gets 2 approved without a prompt and PR 1 acted on by the commit stage.
C6_ApprovePropagation ==
  /\ [][ (pc = "prompt" /\ propagate /\ last'.op = "approve") =>
           /\ approved' = approved \cup {cur}
                            \cup {g \in linkedOf(cur) : g \notin declined}
           /\ declined' = declined
           /\ prSkipped' = prSkipped ]_vars
  /\ [] ( ( /\ Committed
            /\ propagate
            /\ hashesOf(1) = {1, 2}
            /\ prsOf(1) = {1}
            /\ prsOf(2) = {1}
            /\ answers[1] = 1
            /\ 1 \in approved )
          => /\ answers[2] = 0
             /\ 2 \in approved
             /\ approveCalls[1] = 1
             /\ report[1] \in {"approved", "failed", "would approve"} )

\* C6 witness: PR 1 = {1, 2}, the operator approved 1 with propagation on,
\* 2 was approved without an answer, and the commit stage acted on PR 1.
C6_Witness ==
  /\ Committed
  /\ propagate
  /\ hashesOf(1) = {1, 2}
  /\ prsOf(1) = {1}
  /\ prsOf(2) = {1}
  /\ answers[1] = 1
  /\ answers[2] = 0
  /\ {1, 2} \subseteq approved
  /\ approveCalls[1] = 1

\* C7: with propagation off, an approve answer for A adds only A to
\* approved and leaves declined and prSkipped alone, so the other
\* fingerprints of A's pull requests keep the status they had.
C7_ApproveWithoutPropagation ==
  [][ (pc = "prompt" /\ ~propagate /\ last'.op = "approve") =>
        /\ approved' = approved \cup {cur}
        /\ declined' = declined
        /\ prSkipped' = prSkipped ]_vars

\* C7 witness: an approve answer with propagation off, for a fingerprint
\* that shares a pull request with a fingerprint that is still pending.
C7_Witness ==
  /\ last.op = "approve"
  /\ ~propagate
  /\ \E g \in linkedOf(last.h) : g \notin approved /\ g \notin declined

\* C8: the duplicate-collapse step never auto-approves a fingerprint one of
\* whose change lines was first seen under a fingerprint that is declined.
C8_NoCollapseOntoDeclined ==
  last.op = "autoDup" =>
    \A i \in 1..Len(changeMap[last.h]) :
      LET line == changeMap[last.h][i]
      IN line \in DOMAIN firstSeen => firstSeen[line] \notin declined

\* every change line of h was first seen under another, approved hash
coveredByApproved(h) ==
  \A i \in 1..Len(changeMap[h]) :
    LET line == changeMap[h][i]
    IN /\ line \in DOMAIN firstSeen
       /\ firstSeen[line] # h
       /\ firstSeen[line] \in approved

\* C9: when the walk reaches a pending fingerprint none of whose pull
\* requests is skipped, it is approved without a prompt if every one of its
\* change lines was first seen under another fingerprint that is in
\* approved, and it is prompted otherwise.
C9_DuplicateCollapse ==
  [][ ( /\ pc = "walk"
        /\ idx < Len(hashes)
        /\ cur \notin approved
        /\ cur \notin declined
        /\ prsOf(cur) \cap prSkipped = {} )
      => IF coveredByApproved(cur)
         THEN /\ last'.op = "autoDup"
              /\ pc' = "walk"
              /\ approved' = approved \cup {cur}
              /\ answers' = answers
         ELSE /\ last'.op = "prompt"
              /\ pc' = "prompt"
              /\ approved' = approved ]_vars

\* C9 witness: a fingerprint whose change lines were all first seen under
\* one approved fingerprint was approved without an answer.
C9_Witness ==
  /\ last.op = "autoDup"
  /\ answers[last.h] = 0
  /\ last.h \in approved
  /\ \E o \in approved \ declined :
       /\ o # last.h
       /\ answers[o] = 1
       /\ \A i \in 1..Len(changeMap[last.h]) :
            firstSeen[changeMap[last.h][i]] = o

\* C10: the walk reaches the fingerprints of the target users in ascending
\* order, each once, and all of them before the commit stage; a fingerprint
\* already in approved or declined at its turn is not prompted; no
\* fingerprint gets more than one approve/decline answer.
C10_WalkOrder ==
  /\ [] ( /\ \A i, j \in 1..Len(visited) : i < j => visited[i] < visited[j]
          /\ Range(visited) \subseteq hashesMapOf(user, userHashPrMap)
          /\ (pc = "commit" \/ Committed)
               => Range(visited) = hashesMapOf(user, userHashPrMap)
          /\ \A h \in Hashes : answers[h] <= 1 )
  /\ [][ ( /\ pc = "walk"
           /\ idx < Len(hashes)
           /\ (cur \in approved \/ cur \in declined) )
         => /\ pc' = "walk"
            /\ answers' = answers
            /\ firstSeen' = firstSeen ]_vars

\* C10 witness: a finished walk over three fingerprints, one of which was
\* decided by propagation and got no answer.
C10_Witness ==
  /\ Committed
  /\ Len(visited) = 3
  /\ \E h \in Range(visited) :
       answers[h] = 0 /\ (h \in approved \/ h \in declined)
  /\ \E h \in Range(visited) : answers[h] = 1

\* C11: a fingerprint that is in approved or declined is never pending again;
\* a fingerprint in declined stays in declined and is never added to approved;
\* a fingerprint of approved enters declined only by the propagation of a
\* decline answer given for another fingerprint.
C11_DecisionsTerminal ==
  [][/\ (approved \cup declined) \subseteq (approved' \cup declined')
     /\ declined \subseteq declined'
     /\ (approved' \ approved) \cap declined' = {}
     /\ \A g \in (declined' \ declined) \cap approved :
          /\ last'.op = "decline"
          /\ g # last'.h
          /\ \E p \in prsOf(last'.h) : g \in hashesOf(p)]_vars

\* C11 witness: the run returned, and a fingerprint the operator approved
\* was declined afterwards by propagation
C11_Witness ==
  /\ Committed
  /\ \E g \in approved \cap declined, h \in declined :
       /\ g # h
       /\ answers[g] = 1
       /\ answers[h] = 1
       /\ \E i, j \in 1..Len(visited) :
            i < j /\ visited[i] = g /\ visited[j] = h

\* C12: an approve action or a dry-run report happens only in the commit
\* stage, after every fingerprint of the walk has been visited; after a quit
\* answer the run is over: no approve action, no report, no further step.
C12_CommitAfterWalk ==
  /\ [](\A p \in PRs :
          (approveCalls[p] > 0 \/ report[p] # "-") =>
            /\ pc \in {"commit", "done"}
            /\ Range(visited) = Range(hashes)
            /\ idx = Len(hashes))
  /\ [](pc = "exited" =>
          \A p \in PRs : approveCalls[p] = 0 /\ report[p] = "-")
  /\ [][pc # "exited" /\ last.op # "quit"]_vars

\* C12 witness: the operator quit after decisions that made a pull request
\* eligible
C12_Witness ==
  /\ pc = "exited"
  /\ last.op = "quit"
  /\ \E p \in DOMAIN prMap :
       /\ Len(prMap[p]) > 0
       /\ p \notin prSkipped
       /\ allApproved(prMap[p], approved, declined)
       /\ approved # {}

\* the test processApprovals makes before it approves a pull request
eligibleForCommit(p) ==
  /\ p \in DOMAIN prMap
  /\ Len(prMap[p]) > 0
  /\ p \notin prSkipped
  /\ allApproved(prMap[p], approved, declined)
  /\ found(p, hashPrMap)

\* C13: when the batch is over, every pull request that passed the commit
\* test has had exactly one approve attempt and has its own report, whatever
\* the outcome of the other attempts; a failed attempt leaves the batch
\* running.
C13_FailureDoesNotStopBatch ==
  /\ [](Committed =>
          \A p \in PRs :
            eligibleForCommit(p) =>
              /\ approveCalls[p] = 1
              /\ report[p] \in {"approved", "failed", "would approve"})
  /\ [](\A p \in PRs : approveCalls[p] <= 1)
  /\ [][\A p \in PRs :
          (report[p] # "failed" /\ report'[p] = "failed") =>
            pc' = "commit" /\ pending' = pending \ {p}]_vars

\* C13 witness: the batch is over, one attempt failed and another succeeded
C13_Witness ==
  /\ Committed
  /\ \E p, q \in PRs : report[p] = "failed" /\ report[q] = "approved"

\* C14: a dry run never calls the approve action, and the pull requests it
\* reports as "would approve" are those that pass the commit test, the same
\* test that selects the pull requests a real run hands to the approve action.
C14_DryRunMutatesNothing ==
  /\ [](dryRun => \A p \in PRs : report[p] \notin {"approved", "failed"})
  /\ [](Committed /\ dryRun =>
          {p \in PRs : report[p] = "would approve"}
            = {p \in PRs : eligibleForCommit(p)})
  /\ [](Committed /\ ~dryRun =>
          {p \in PRs : report[p] \in {"approved", "failed"}}
            = {p \in PRs : eligibleForCommit(p)})

\* C14 witness: a dry run is over and reported a pull request as would-approve
\* while it left another one out
C14_Witness ==
  /\ Committed
  /\ dryRun
  /\ \E p, q \in PRs :
       report[p] = "would approve" /\ report[q] \notin {"would approve", "-"}

\* C15: at every point where no goroutine is inside the merge section, and
\* when the collector has returned indices, a pull request is in the list
\* of a fingerprint in hashPrMap exactly when the fingerprint is in the
\* list of the pull request in prMap.
C15_IndexConsistency ==
  mutex = 0 =>
    \A p \in PRs, f \in Hashes : (p \in prsOf(f)) <=> (f \in hashesOf(p))

\* C15 witness: indices were returned in which two pull requests share a
\* fingerprint
C15_Witness ==
  /\ cpc = "returned"
  /\ ret.maps
  /\ \E f \in Hashes : Cardinality(prsOf(f)) = 2
  /\ \E p \in PRs : Cardinality(hashesOf(p)) = 2

NoRepeat(s) == \A i, j \in 1..Len(s) : s[i] = s[j] => i = j

\* C16: the merge section of a notification whose pull request was merged
\* before leaves the four indices as they are; no list of pull requests
\* holds a pull request twice and no list of prMap holds a fingerprint
\* twice, also when a hunk occurs twice in a diff.
C16_MergeIdempotent ==
  /\ [][\A i \in DOMAIN notifs :
          (/\ tpc[i] = "locked"
           /\ tpc'[i] = "done"
           /\ \E j \in DOMAIN notifs :
                j # i /\ tout[j] = "merged" /\ notifs[j].pr = notifs[i].pr)
          => UNCHANGED indexVars]_vars
  /\ [](/\ \A f \in DOMAIN hashPrMap : NoRepeat(hashPrMap[f])
        /\ \A p \in DOMAIN prMap : NoRepeat(prMap[p])
        /\ \A u \in DOMAIN userHashPrMap :
             \A f \in DOMAIN userHashPrMap[u] :
               NoRepeat(userHashPrMap[u][f]))

\* C16 witness: two notifications of the same pull request were both merged
C16_Witness ==
  /\ cpc = "returned"
  /\ ret.maps
  /\ \E i, j \in DOMAIN notifs :
       /\ i # j
       /\ notifs[i].pr = notifs[j].pr
       /\ tout[i] = "merged"
       /\ tout[j] = "merged"
       /\ Len(prMap[notifs[i].pr]) = 2

\* the lists of the indices as sets
asSets(ix) ==
  [user   |-> [u \in DOMAIN ix.user |->
                 [f \in DOMAIN ix.user[u] |-> Range(ix.user[u][f])]],
   change |-> ix.change,
   hash   |-> [f \in DOMAIN ix.hash |-> Range(ix.hash[f])],
   pr     |-> [q \in DOMAIN ix.pr |-> Range(ix.pr[q])]]

RECURSIVE mergedInListingOrder(_)
\* the indices when the notifications 1..n that reached the merge section
\* are merged one after the other in the order of the listing
mergedInListingOrder(n) ==
  IF n = 0 THEN EmptyIndices
  ELSE IF tout[n] \in {"merged", "mergedEmpty"}
  THEN LET prHash == IF tout[n] = "merged" THEN prDiff(notifs[n].pr)
                     ELSE <<>>
       IN mergePr(mergedInListingOrder(n - 1), notifs[n].pr, prHash,
                  hunkMapOf(1, prHash))
  ELSE mergedInListingOrder(n - 1)

\* C17: when every resolution succeeded, the returned indices, read as
\* sets, and the change-line map are those of the merge in listing order,
\* whatever the order in which the goroutines went through the merge section.
C17_OrderIndependent ==
  (cpc = "returned" /\ ret.maps) =>
    asSets(Indices) = asSets(mergedInListingOrder(Len(notifs)))

\* C17 witness: indices were returned after the second notification was
\* merged before the first, the two pull requests sharing a fingerprint
C17_Witness ==
  /\ cpc = "returned"
  /\ ret.maps
  /\ \E i, j \in DOMAIN notifs, f \in DOMAIN hashPrMap :
       /\ i < j
       /\ notifs[i].pr # notifs[j].pr
       /\ \E a, b \in 1..Len(hashPrMap[f]) :
            /\ a < b
            /\ hashPrMap[f][a] = notifs[j].pr
            /\ hashPrMap[f][b] = notifs[i].pr

\* C18: when the listing fails the collector returns the error and no
\* indices, no goroutine was started, and ManualApproval returns the error:
\* it visits no fingerprint and makes no approve action or report.
C18_ListingFailure ==
  /\ [][(cpc = "list" /\ cpc' = "returned") =>
          (ret'.err /\ ~ret'.maps /\ pc' = "start")]_vars
  /\ [](ret.err =>
          /\ \A i \in DOMAIN tpc : tpc[i] = "idle"
          /\ Indices = EmptyIndices
          /\ pc \in {"start", "error"}
          /\ visited = <<>>
          /\ \A p \in PRs : approveCalls[p] = 0 /\ report[p] = "-")
  /\ [][(ret.err /\ pc = "start") => pc' = "error"]_vars

\* C18 witness: ManualApproval returned the error of a listing that would
\* have had notifications to resolve
C18_Witness ==
  /\ pc = "error"
  /\ last.op = "returnErr"
  /\ ret.err
  /\ Len(notifs) > 0

\* C19: when the pull request fetch or the diff fetch of a notification
\* failed, the collector returns an error and no indices.
C19_ResolutionFailureIsError ==
  (cpc = "returned" /\ \E i \in DOMAIN tout : tout[i] \in {"getErr", "diffErr"})
    => (ret.err /\ ~ret.maps)

\* the positions of the hunk headers of the scanned diff
headers == {i \in 1..Len(exDiff) : exDiff[i][1] = "@" /\ exDiff[i][2] = "@"}

\* an added or removed line that is not a file-header line
ChangeLine(l) ==
  /\ l[1] \in {"+", "-"}
  /\ l \notin {<<"+", "+", "+">>, <<"-", "-", "-">>}

\* the change lines of the hunk whose header is at position i
changeLinesAt(i) ==
  LET nxt == {j \in headers : j > i}
      end == IF nxt = {} THEN Len(exDiff) ELSE Min(nxt) - 1
  IN SelectSeq(SubSeq(exDiff, i + 1, end), ChangeLine)

\* the headers of the hunks with a change line, in diff order
changedHunks == SortSet({i \in headers : changeLinesAt(i) # <<>>})

\* C20: the hunks of a diff that have a change line get one fingerprint
\* each, and two of them get the same fingerprint exactly when their
\* change-line sequences are equal, whatever context lines, headers and
\* file-header lines lie around them.
C20_FingerprintOfChangeLines ==
  exPc = "returned" =>
    /\ Len(exHashes) = Len(changedHunks)
    /\ \A i, j \in 1..Len(changedHunks) :
         (exHashes[i] = exHashes[j])
           <=> (changeLinesAt(changedHunks[i]) = changeLinesAt(changedHunks[j]))

\* C20 witness: a diff was scanned in which two hunks have the same change
\* lines and one fingerprint, with a context line or a file-header line
\* lying in the first of them
C20_Witness ==
  /\ exPc = "returned"
  /\ Len(changedHunks) = 2
  /\ changeLinesAt(changedHunks[1]) = changeLinesAt(changedHunks[2])
  /\ exHashes[1] = exHashes[2]
  /\ \E k \in changedHunks[1]..changedHunks[2] :
       exDiff[k] \in {<<"+", "+", "+">>, <<"-", "-", "-">>, <<" ", "a">>}

\* C21: the fingerprint list of a diff is, in diff order, the digest of the
\* joined change lines of each hunk that has a change line: nothing for a
\* diff without hunk header or for the lines before the first header,
\* nothing for a hunk of context lines only, and the hunk that is open at
\* the end of the input is emitted.
C21_OneFingerprintPerChangedHunk ==
  exPc = "returned" =>
    /\ exHashes = [i \in 1..Len(changedHunks) |->
                     sha256hex(Join(changeLinesAt(changedHunks[i]),
                                    <<"\n">>))]
    /\ (headers = {} => exHashes = <<>>)

\* C21 witness: a diff was scanned that has a change line before its first
\* hunk header, a hunk of context lines only, and a hunk with a change line
\* open at its end
C21_Witness ==
  /\ exPc = "returned"
  /\ headers # {}
  /\ ChangeLine(exDiff[1])
  /\ \E i \in headers : changeLinesAt(i) = <<>> /\ i + 1 \notin headers
                          /\ i < Len(exDiff)
  /\ ChangeLine(exDiff[Len(exDiff)])
  /\ Len(exHashes) = 1

\* a line of only blanks, or empty
blankLine(l) == \A i \in 1..Len(l) : l[i] = " "

\* the line starts the Dependabot command block
markerLine(i) ==
  \/ body[i] \in {<<"@dependabot rebase">>,
                   <<"Dependabot commands and options">>}
  \/ /\ body[i] = <<"Dependabot">>
     /\ \E j \in i..Len(body) :
          /\ j < i + LookAheadLines
          /\ body[j] \in {<<"@dependabot rebase">>, <<"merge">>}

markers == {i \in 1..Len(body) : markerLine(i)}

\* the lines before the first marker, without the blank lines next to it
linesBeforeMarker ==
  LET m == Min(markers)
      kept == {k \in 1..(m - 1) : ~blankLine(body[k])}
  IN SubSeq(body, 1, IF kept = {} THEN 0
                     ELSE CHOOSE k \in kept : \A x \in kept : x <= k)

\* what the claim gives as the result for the body
expectedCleaned ==
  IF markers # {} THEN Join(linesBeforeMarker, <<"\n">>)
  ELSE TrimRight(Join(body, <<"\n">>))

\* C22 as stated: the result is the lines before the first marker line
\* without the blank lines next to the marker, or, without a marker line,
\* the body without its trailing blanks and newlines.
C22_CleanedAsStated ==
  utPc = "returned" => cleaned = expectedCleaned

\* C22 amended: a body of only blanks and newlines is returned as it is;
\* every other body gives the lines before the first marker line without
\* the blank lines next to the marker, or, without a marker line, the body
\* without its trailing blanks and newlines.
C22_Cleaned ==
  utPc = "returned" =>
    cleaned = IF \A i \in 1..Len(body) : blankLine(body[i])
              THEN Join(body, <<"\n">>)
              ELSE expectedCleaned

\* C22 witness: a body with text, a blank line and then a marker line was
\* cleaned
C22_Witness ==
  /\ utPc = "returned"
  /\ markers # {}
  /\ Min(markers) > 2
  /\ blankLine(body[Min(markers) - 1])
  /\ cleaned # <<>>

\* C23: in every state of the decision pass, a pull request one of whose
\* fingerprints is in declined is in prSkipped.
C23_DeclinedImpliesSkipped ==
  \A p \in DOMAIN prMap : (hashesOf(p) \cap declined # {}) => p \in prSkipped

\* C24: an approve answer adds to approved no fingerprint that is in
\* declined, with the propagate flag or without, and leaves declined and
\* prSkipped as they are.
C24_ApproveFrame ==
  [][(pc = "prompt" /\ last'.op = "approve") =>
       /\ cur \in approved'
       /\ (approved' \ approved) \cap declined = {}
       /\ declined' = declined
       /\ prSkipped' = prSkipped]_vars

\* C24 witness: an approve answer with propagation was given for a
\* fingerprint that shares a pull request with a declined fingerprint
C24_Witness ==
  /\ last.op = "approve"
  /\ propagate
  /\ \E p \in prsOf(last.h) :
       \E g \in hashesOf(p) : g \in declined /\ g \notin approved

\* C30: a show-comment answer, also when a comment could not be fetched,
\* and an answer that is not recognized leave approved, declined, prSkipped
\* and firstSeen as they are, and the prompt for the same fingerprint comes
\* again.
C30_ShowCommentFrame ==
  [][(pc = "prompt" /\ last'.op \in {"showComment", "showCommentErr", "other"})
       => /\ approved' = approved
          /\ declined' = declined
          /\ prSkipped' = prSkipped
          /\ firstSeen' = firstSeen
          /\ pc' = "prompt"
          /\ hashes' = hashes
          /\ idx' = idx]_vars

\* C30 witness: the prompt stands after a show-comment answer for which a
\* comment could not be fetched, with decisions made before
C30_Witness ==
  /\ pc = "prompt"
  /\ last.op = "showCommentErr"
  /\ approved # {}
  /\ declined # {}

\* the orders in which the elements of a list without repeats can stand
Perms(l) == {t \in [1..Len(l) -> Range(l)] : Range(t) = Range(l)}

RECURSIVE ReorderedAt(_, _)
\* the index m with the elements of its lists at keys in any order
ReorderedAt(m, keys) ==
  IF keys = {} THEN {m}
  ELSE LET k == CHOOSE x \in keys : TRUE
       IN {[g EXCEPT ![k] = t] :
             g \in ReorderedAt(m, keys \ {k}), t \in Perms(m[k])}

\* the index m with the elements of its lists in any order
Reordered(m) == ReorderedAt(m, DOMAIN m)

\* C25: whatever the order of the pull requests and fingerprints inside the
\* lists of hashPrMap and prMap, a decline answer gives the same declined
\* and prSkipped, an approve answer with propagation the same approved, and
\* the commit test the same verdict for every pull request; when the batch
\* is over, the pull requests acted on are those that pass the commit test,
\* in whatever order the batch took them.
C25_OrderOfListsIrrelevant ==
  /\ pc = "prompt" =>
       \A hpm \in Reordered(hashPrMap), pm \in Reordered(prMap) :
         /\ autoDeclineLinkedHashes(cur, declined \cup {cur}, prSkipped,
                                    hpm, pm)
              = autoDeclineLinkedHashes(cur, declined \cup {cur}, prSkipped,
                                        hashPrMap, prMap)
         /\ autoApproveLinkedHashes(cur, approved \cup {cur}, declined,
                                    hpm, pm)
              = autoApproveLinkedHashes(cur, approved \cup {cur}, declined,
                                        hashPrMap, prMap)
  /\ pc = "commit" =>
       \A hpm \in Reordered(hashPrMap), pm \in Reordered(prMap) :
         \A p \in DOMAIN prMap :
           /\ allApproved(pm[p], approved, declined)
                = allApproved(prMap[p], approved, declined)
           /\ found(p, hpm) = found(p, hashPrMap)
  /\ Committed =>
       \A p \in PRs : (approveCalls[p] > 0) <=> eligibleForCommit(p)

\* C25 witness: a decline answer was given for a fingerprint of two pull
\* requests, each of which has another fingerprint, and the list of a
\* fingerprint is not in the order of the listing
C25_Witness ==
  /\ last.op = "decline"
  /\ Len(Lookup(hashPrMap, last.h)) = 2
  /\ \A p \in prsOf(last.h) : Len(prMap[p]) = 2
  /\ \E i, j \in DOMAIN notifs :
       /\ i < j
       /\ hashPrMap[last.h] = <<notifs[j].pr, notifs[i].pr>>

\* C26: never more than CONCURRENCY_LIMIT goroutines of the collector are
\* in flight, also for a listing with more notifications than that.
C26_ConcurrencyLimit ==
  Cardinality(inFlight) <= CONCURRENCY_LIMIT

\* C26 witness: the limit is reached while a notification waits for its
\* goroutine
C26_Witness ==
  /\ Cardinality(inFlight) = CONCURRENCY_LIMIT
  /\ \E i \in DOMAIN tpc : tpc[i] = "idle"

\* a step of the collector or of one of its goroutines
\* the steps of the collector outside the merge section
StepOutsideMerge ==
  \/ getNotifications
  \/ \E i \in Notifs : Spawn(i) \/ Resolve(i) \/ Lock(i)
  \/ Wait

\* C27: at most one goroutine is inside the merge section and it holds the
\* mutex; while the collector runs the indices and the change-line map
\* change only by the step of the holder that ends with the unlock, and a
\* step that changes the mutex while it is held is that unlock; until the
\* collector has returned, either a goroutine is inside the merge section
\* (its step MergeUnlock waits for nothing) or a step outside it can be
\* taken, and the return can be taken once every goroutine has returned.
C27_MergeSerialized ==
  /\ [](/\ Cardinality({i \in DOMAIN tpc : tpc[i] = "locked"}) <= 1
        /\ \A i \in DOMAIN tpc : tpc[i] = "locked" <=> mutex = i
        /\ mutex \in {0} \cup DOMAIN tpc)
  /\ [][(cpc' = "loop" /\ indexVars' # indexVars) =>
          (mutex # 0 /\ tpc[mutex] = "locked" /\ tpc'[mutex] = "done"
           /\ mutex' = 0)]_vars
  /\ [][(mutex # 0 /\ mutex' # mutex) =>
          (mutex' = 0 /\ tpc'[mutex] = "done")]_vars
  /\ []((cpc = "loop" /\ \A i \in DOMAIN tpc : tpc[i] = "done")
          => ENABLED Wait)
  /\ [](cpc # "returned" =>
          \/ \E i \in DOMAIN tpc : tpc[i] = "locked"
          \/ ENABLED StepOutsideMerge)

\* C27 witness: a goroutine is inside the merge section while another one
\* waits for the mutex
C27_Witness ==
  /\ mutex # 0
  /\ \E j \in DOMAIN tpc : tpc[j] = "ready"

\* the pull requests that occur in the indices
indexedPRs ==
  DOMAIN prMap
    \cup UNION {Range(hashPrMap[f]) : f \in DOMAIN hashPrMap}
    \cup UNION {UNION {Range(userHashPrMap[u][f]) :
                         f \in DOMAIN userHashPrMap[u]} :
                  u \in DOMAIN userHashPrMap}

\* the collector has returned indices
ReturnedIndices == cpc = "returned" /\ ret.maps

\* the pull requests of the review_requested notifications that were found
\* open
openRequested ==
  {notifs[i].pr : i \in {j \in DOMAIN notifs :
                           tout[j] \in {"merged", "mergedEmpty"}}}

\* C28 as stated: the returned indices contain exactly the open pull
\* requests of the review_requested notifications.
C28_IndexedAsStated ==
  ReturnedIndices => indexedPRs = openRequested

\* C28 amended: a goroutine that ends because the reason is not
\* review_requested or the pull request is missing or not open changes no
\* index, not the change-line map, and records no error, so a listing with
\* only such notifications besides merged ones returns indices; the
\* returned indices contain exactly the open pull requests of
\* review_requested notifications whose diff has a fingerprint.
C28_SkippedContributeNothing ==
  /\ [][\A i \in DOMAIN notifs :
          (tout[i] = "-" /\ tout'[i] \in {"skipped", "notOpen"}) =>
            /\ UNCHANGED <<indexVars, egErr>>
            /\ tpc'[i] = "done"
            /\ (tout'[i] = "skipped") <=>
                 (notifs[i].reason # "review_requested")]_vars
  /\ []((cpc = "returned" /\ ~ret.err /\ \A i \in DOMAIN tout :
            tout[i] \in {"skipped", "notOpen", "merged", "mergedEmpty"})
          => ret.maps)
  /\ [](ReturnedIndices =>
          indexedPRs = {notifs[i].pr : i \in {j \in DOMAIN notifs :
                                                 tout[j] = "merged"}})

\* C28 witness: indices were returned that hold the pull request of one
\* notification while the other was skipped or its pull request not open
C28_Witness ==
  /\ ReturnedIndices
  /\ \E i, j \in DOMAIN notifs :
       /\ tout[i] \in {"skipped", "notOpen"}
       /\ tout[j] = "merged"
       /\ notifs[i].pr # notifs[j].pr
  /\ Cardinality(indexedPRs) = 1

\* the pull requests under user u and fingerprint f in userHashPrMap
userPRs(u, f) ==
  IF u \in DOMAIN userHashPrMap
  THEN Range(Lookup(userHashPrMap[u], f)) ELSE {}

\* the pull requests that were merged with the fingerprints of their diff
mergedPRs ==
  {notifs[i].pr : i \in {j \in DOMAIN notifs : tout[j] = "merged"}}

PrepareManualApproval(usr, uhp) == collectHashesForUsers(usr, uhp)

\* approve.AutoApproveLinkedHashesQuiet: autoApproveLinkedHashes, silent
AutoApproveLinkedHashesQuiet(h, appr, decl, hpm, pm) ==
  autoApproveLinkedHashes(h, appr, decl, hpm, pm)

\* approve.AutoDeclineLinkedHashesQuiet: autoDeclineLinkedHashes, silent
AutoDeclineLinkedHashesQuiet(h, decl, skipped, hpm, pm) ==
  autoDeclineLinkedHashes(h, decl, skipped, hpm, pm)

\* the allDeclined loop of stagedPrKeys, reconcilePrSkipped and the commit
\* key
allDeclined(phashes, decl) == \A i \in 1..Len(phashes) : phashes[i] \in decl

\* variant: hashes need not be approved while no approval is recorded
allApprovedGuiLenient(phashes, appr, decl) ==
  \A i \in 1..Len(phashes) :
    /\ phashes[i] \notin decl
    /\ (Cardinality(appr) > 0 => phashes[i] \in appr)

\* the allApproved loop of stagedPrKeys, reconcilePrSkipped and the commit
\* key
allApprovedGui(phashes, appr, decl) ==
  \A i \in 1..Len(phashes) :
    /\ phashes[i] \notin decl
    /\ Cardinality(appr) > 0
    /\ phashes[i] \in appr

\* the staging test shared by stagedPrKeys and reconcilePrSkipped
stagedTest(phashes, appr, decl) ==
  /\ ~allDeclined(phashes, decl)
  /\ allApprovedGui(phashes, appr, decl)

\* reconcilePrSkipped: prSkipped afterwards
reconcilePrSkipped(pm, appr, decl, skipped) ==
  skipped \ {p \in DOMAIN pm : p \in skipped /\ Cardinality(appr) > 0
                                  /\ stagedTest(pm[p], appr, decl)}

\* stagedPrKeys: <<the sorted staged list, prSkipped afterwards>>
stagedPrKeys(pm, appr, decl, skipped) ==
  LET staged == {p \in DOMAIN pm : stagedTest(pm[p], appr, decl)}
  IN <<SortSet(staged), skipped \ staged>>

\* reconcilePrSkipped, updateStagedList and updateViewportContent (which
\* calls updateStagedList again): prSkipped afterwards
refreshStaged(pm, appr, decl, skipped) ==
  LET s1 == reconcilePrSkipped(pm, appr, decl, skipped)
      s2 == stagedPrKeys(pm, appr, decl, s1)[2]
  IN stagedPrKeys(pm, appr, decl, s2)[2]

\* the filtered map of the commit key: its keys
filteredPrs(pm, appr, decl, skipped) ==
  {p \in DOMAIN pm : /\ p \notin skipped
                     /\ ~allDeclined(pm[p], decl)
                     /\ allApprovedGui(pm[p], appr, decl)}

\* the diffs of the GUI runs: runs of neighbouring fingerprints, so that
\* pull requests overlap
GuiDiffSets ==
  {S \in DiffSets : S # {} /\ \A h \in Hashes :
                               (\E a, b \in S : a <= h /\ h <= b) => h \in S}

\* the users the GUI is started for
GuiUserInputs == {<<"u1">>, <<"u1", "u2">>}

\* gui.New has built the model from the collector's indices
InitGui ==
  /\ \E diffs \in [PRs -> GuiDiffSets] :
       LET ix == GetPrReviewRequested(1, diffs, NumPRs)
       IN /\ userHashPrMap = ix.user
          /\ changeMap = ix.change
          /\ hashPrMap = ix.hash
          /\ prMap = ix.pr
  /\ notifs = [i \in PRs |-> [pr |-> i, reason |-> "review_requested"]]
  /\ cpc = "returned"
  /\ tpc = [i \in PRs |-> "done"]
  /\ tout = [i \in PRs |-> "merged"]
  /\ mutex = 0
  /\ egErr = FALSE
  /\ ret = [err |-> FALSE, maps |-> TRUE]
  /\ pc = "gui"
  /\ user \in GuiUserInputs
  /\ propagate \in BOOLEAN
  /\ dryRun = FALSE
  /\ hashes = PrepareManualApproval(user, userHashPrMap)
  /\ idx = 0
  /\ approved = {}
  /\ declined = {}
  /\ prSkipped = {}
  /\ firstSeen = EmptyMap
  /\ pending = {}
  /\ approveCalls = [p \in PRs |-> 0]
  /\ report = [p \in PRs |-> "-"]
  /\ visited = <<>>
  /\ answers = [h \in Hashes |-> 0]
  /\ last = [op |-> "new", h |-> 0]
  /\ eof = FALSE
  /\ hashIndex = 0
  /\ focusRow = 0
  /\ guiPc = "running"
  /\ ExtractorIdle
  /\ CleanerIdle
  /\ ApproverIdle

\* what no key of the GUI changes
guiFrame == UNCHANGED <<indexVars, colVars, exVars, utilVars, apVars, argVars,
                        hashes, idx, firstSeen, pending, approveCalls, report,
                        visited, answers, eof, pc>>

\* the selected hash
sel == hashes[hashIndex + 1]

\* key q or esc
KeyQuit ==
  /\ guiPc = "running"
  /\ guiPc' = "quit"
  /\ UNCHANGED <<approved, declined, prSkipped, last, hashIndex, focusRow>>
  /\ guiFrame

\* key tab
KeyTab ==
  /\ guiPc = "running"
  /\ focusRow' = (focusRow + 1) % 2
  /\ UNCHANGED <<approved, declined, prSkipped, last, hashIndex, guiPc>>
  /\ guiFrame

\* keys w and s with the top row focused (hash column active); a change of
\* the selection runs updateViewportContent
KeySelect ==
  /\ guiPc = "running"
  /\ focusRow = 0
  /\ \E k \in {"w", "s"} :
       LET moved == IF k = "w" THEN hashIndex > 0
                    ELSE hashIndex < Len(hashes) - 1
       IN /\ hashIndex' = IF ~moved THEN hashIndex
                          ELSE IF k = "w" THEN hashIndex - 1
                          ELSE hashIndex + 1
          /\ prSkipped' = IF moved
                          THEN stagedPrKeys(prMap, approved, declined,
                                            prSkipped)[2]
                          ELSE prSkipped
  /\ UNCHANGED <<approved, declined, last, focusRow, guiPc>>
  /\ guiFrame

\* key x with the top row focused: approve the selected hash
KeyApprove ==
  /\ guiPc = "running"
  /\ focusRow = 0
  /\ hashIndex >= 0 /\ hashIndex < Len(hashes)
  /\ LET decl1 == declined \ {sel}
         appr1 == approved \cup {sel}
         appr2 == IF propagate
                  THEN AutoApproveLinkedHashesQuiet(sel, appr1, decl1,
                                                    hashPrMap, prMap)
                  ELSE appr1
     IN /\ declined' = decl1
        /\ approved' = appr2
        /\ prSkipped' = refreshStaged(prMap, appr2, decl1, prSkipped)
  /\ last' = [op |-> "approve", h |-> sel]
  /\ UNCHANGED <<hashIndex, focusRow, guiPc>>
  /\ guiFrame

\* variant: hashes declined by propagation keep their approval
KeyDeclineKeepingApproved ==
  /\ guiPc = "running"
  /\ focusRow = 0
  /\ hashIndex >= 0 /\ hashIndex < Len(hashes)
  /\ LET appr1 == approved \ {sel}
         r     == AutoDeclineLinkedHashesQuiet(sel, declined \cup {sel},
                                               prSkipped, hashPrMap, prMap)
     IN /\ declined' = r[1]
        /\ approved' = appr1
        /\ prSkipped' = refreshStaged(prMap, appr1, r[1], r[2])
  /\ last' = [op |-> "decline", h |-> sel]
  /\ UNCHANGED <<hashIndex, focusRow, guiPc>>
  /\ guiFrame

\* key f with the top row focused: decline the selected hash
KeyDecline ==
  /\ guiPc = "running"
  /\ focusRow = 0
  /\ hashIndex >= 0 /\ hashIndex < Len(hashes)
  /\ LET appr1 == approved \ {sel}
         r     == AutoDeclineLinkedHashesQuiet(sel, declined \cup {sel},
                                               prSkipped, hashPrMap, prMap)
         appr2 == appr1 \ r[1]
     IN /\ declined' = r[1]
        /\ approved' = appr2
        /\ prSkipped' = refreshStaged(prMap, appr2, r[1], r[2])
  /\ last' = [op |-> "decline", h |-> sel]
  /\ UNCHANGED <<hashIndex, focusRow, guiPc>>
  /\ guiFrame

\* key c with the top row focused: commit.  filtered is handed to
\* approve.RunProcessApprovals, whose remote effects are not followed here.
KeyCommit ==
  /\ guiPc = "running"
  /\ focusRow = 0
  /\ LET keys == filteredPrs(prMap, approved, declined, prSkipped)
     IN /\ prSkipped' = IF keys # {}
                        THEN refreshStaged(prMap, approved, declined,
                                           prSkipped)
                        ELSE stagedPrKeys(prMap, approved, declined,
                                          prSkipped)[2]
        /\ last' = [op |-> "commit", h |-> 0, filtered |-> keys]
  /\ UNCHANGED <<approved, declined, hashIndex, focusRow, guiPc>>
  /\ guiFrame

NextGui ==
  \/ KeyQuit
  \/ KeyTab
  \/ KeySelect
  \/ KeyApprove
  \/ KeyDecline
  \/ KeyCommit

SpecGui == InitGui /\ [][NextGui]_vars

\* ------------------------------------------------------------ C31, C32, C40
\* the request x was sent by the ApprovePr call
sent(x) == \E i \in DOMAIN apLog : apLog[i] = x

\* the call got past the tests of the pull request object
pastEntry == ~apIn.prNil /\ apIn.baseOk

C32_SquashIffAutoMergeFailed ==
  (apPc = "returned" /\ sent("createReview") /\ apIn.review) =>
    LET autoEnabled == sent("enableAutoMerge") /\ apIn.autoMerge
    IN /\ sent("squashMerge") <=> ~autoEnabled
       /\ (autoEnabled \/ (sent("squashMerge") /\ apIn.squash))
            => apRet = "nil"
       /\ apRet # "nil" => (sent("squashMerge") /\ ~apIn.squash)

\* C40: an auto-merge or merge request is only sent after the review
\* request answered with success; when the review request fails, neither
\* is sent and the call returns an error.
C40_ReviewBeforeMerge ==
  /\ \A i \in DOMAIN apLog :
       apLog[i] \in {"enableAutoMerge", "squashMerge"} =>
         /\ \E j \in 1..(i - 1) : apLog[j] = "createReview"
         /\ apIn.review
  /\ (apPc = "returned" /\ sent("createReview") /\ ~apIn.review) =>
       /\ apRet \notin {"nil", "-"}
       /\ ~sent("enableAutoMerge")
       /\ ~sent("squashMerge")

\* C40 witness: the review request failed and the call has returned
C40_Witness ==
  /\ apPc = "returned"
  /\ sent("createReview") /\ ~apIn.review
  /\ apRet = "failed to create approval"

\* ------------------------------------------------------------------- C35
\* C35: every fingerprint of a pull request in prSkipped is in declined,
\* and the walk never passes over a fingerprint for the reason that one of
\* its pull requests was skipped: such a fingerprint is already passed
\* over as decided.
C35_SkippedPrIsAllDeclined ==
  /\ \A p \in prSkipped : hashesOf(p) \subseteq declined
  /\ last.op # "skipPr"

\* C35 witness: the walk passes over a fingerprint nobody answered for,
\* which was declined together with a skipped pull request of two
\* fingerprints
C35_Witness ==
  /\ last.op = "skipDecided"
  /\ answers[last.h] = 0
  /\ last.h \in declined
  /\ \E p \in prSkipped :
       last.h \in hashesOf(p) /\ Cardinality(hashesOf(p)) = 2

\* ------------------------------------------------------------------- C36
\* C36: a pull request the commit stage acted on has at least one
\* fingerprint of the walk list of the target users.
C36_ActedOnlyOnWalkedPrs ==
  \A p \in PRs :
    approveCalls[p] > 0 => \E h \in hashesOf(p) : h \in Range(hashes)

\* ------------------------------------------------------------------- C37
\* ManualApproval has exited or returned
Terminated == pc \in {"done", "exited", "error"}

\* C37: once the operator's input has ended, ManualApproval eventually
\* exits or returns.
C37_TerminatesAfterEndOfInput == eof ~> Terminated

\* ------------------------------------------------------------------- C38
\* C38: an entry of firstSeen never changes once it is set, and entries
\* are added only by the step that displays a fingerprint for its prompt,
\* under that fingerprint; so the originators of firstSeen are fingerprints
\* the walk displayed for a prompt, never ones it passed over as decided
\* or approved by duplicate-collapse.
C38_FirstSeenFirstWriterWins ==
  /\ [][\A line \in DOMAIN firstSeen :
          line \in DOMAIN firstSeen' /\ firstSeen'[line] = firstSeen[line]]_vars
  /\ [][firstSeen' # firstSeen =>
          /\ pc = "walk" /\ pc' = "prompt"
          /\ last'.op = "prompt" /\ last'.h = cur
          /\ \A line \in DOMAIN firstSeen' \ DOMAIN firstSeen :
               firstSeen'[line] = cur]_vars
  /\ [][(last'.op \in {"autoDup", "skipDecided", "approve", "decline"}
          /\ last' # last)
          => firstSeen' = firstSeen]_vars

\* C38 witness: a fingerprint is displayed one of whose lines was first
\* seen under another fingerprint, and it adds a line of its own
C38_Witness ==
  /\ pc = "prompt"
  /\ last.op = "prompt"
  /\ \E l1, l2 \in DOMAIN firstSeen :
       /\ firstSeen[l1] = last.h
       /\ firstSeen[l2] # last.h
       /\ l2 \in Range(Lookup(changeMap, last.h))

\* ------------------------------------------------------------------- C39
\* C39: the step that approves a fingerprint by duplicate-collapse adds
\* that fingerprint to approved and nothing else, whatever the propagate
\* flag, and leaves declined, prSkipped and firstSeen as they are.
C39_DuplicateCollapseFrame ==
  [][(pc = "walk" /\ idx' = idx + 1 /\ last'.op = "autoDup") =>
       /\ approved' = approved \cup {cur}
       /\ cur \notin approved
       /\ declined' = declined
       /\ prSkipped' = prSkipped
       /\ firstSeen' = firstSeen]_vars

\* C39 witness: with propagation on, a fingerprint was approved by
\* duplicate-collapse while another fingerprint of one of its pull
\* requests is undecided
C39_Witness ==
  /\ last.op = "autoDup"
  /\ propagate
  /\ \E p \in prsOf(last.h) : \E g \in hashesOf(p) :
       g \notin approved \cup declined

\* ------------------------------------------------------------ C33, C34
\* the GUI program is running or has quit
GuiStarted == guiPc \in {"running", "quit"}

\* C33: in the GUI no fingerprint is in both approved and declined after
\* any approve (x) and decline (f) key presses; the fingerprint approved
\* last is approved and not declined, the fingerprint declined last is
\* declined and not approved.
C33_GuiApprovedDeclinedDisjoint ==
  GuiStarted =>
    /\ approved \cap declined = {}
    /\ last.op = "approve" => last.h \in approved /\ last.h \notin declined
    /\ last.op = "decline" => last.h \in declined /\ last.h \notin approved

\* a decline has declined a second fingerprint by propagation while
\* approvals of other fingerprints remain
C33_Witness ==
  /\ GuiStarted
  /\ last.op = "decline"
  /\ \E h \in declined : h # last.h /\ \E p \in DOMAIN prMap :
                                         {h, last.h} \subseteq hashesOf(p)
  /\ approved # {}

\* the test of C34 on the state in which the commit key is pressed
passesCommit(p) ==
  /\ p \in DOMAIN prMap
  /\ p \notin prSkipped
  /\ ~(hashesOf(p) \subseteq declined)
  /\ hashesOf(p) \cap declined = {}
  /\ hashesOf(p) \subseteq approved

\* C34: the commit key hands a pull request to the approval stage iff it
\* is not in prSkipped, not all of its fingerprints are declined, none is
\* declined and all are in approved; with approved empty it hands over
\* none.
C34_GuiCommitFilter ==
  [][(last'.op = "commit" /\ UNCHANGED <<hashIndex, focusRow, guiPc>>) =>
       /\ \A p \in PRs : p \in last'.filtered <=> passesCommit(p)
       /\ approved = {} => last'.filtered = {}]_vars

\* a commit has handed over one pull request and held back another
C34_Witness ==
  /\ GuiStarted
  /\ last.op = "commit"
  /\ last.filtered # {}
  /\ DOMAIN prMap \ last.filtered # {}

====
